---- MODULE Spec2Model ----
(***************************************************************************)
(* Session lifecycle of the SSH/SFTP MCP server: SessionManager (session   *)
(* registry, admission, idle sweep) and the command executor's promise /   *)
(* stream callbacks, as far as they touch the session.                     *)
(*                                                                         *)
(* Time: the code compares Date.now() - session.lastActivity with the      *)
(* session timeout.  The model keeps that difference (idleFor) per session *)
(* instead of the two absolute times, saturated one tick above the session *)
(* timeout, which is all the comparison can observe, and only for sessions *)
(* the sweep can still come to look at.                                    *)
(***************************************************************************)
EXTENDS Integers, Sequences, FiniteSets

\* ---------------------------------------------------------------- bounds
MaxIds == 2            \* session ids (uuidv4 values) handed out in a run
MaxOps == 1            \* command executions tracked at the same time
MaxCommands == 1       \* commands counted per session
maxSessions == 1       \* the configured session ceiling
sessionTimeout == 1    \* the configured idle timeout, in ticks
MaxCmdTimeout == 3     \* largest per-command timeout, in ticks
MaxChunks == 2         \* data events followed per execution
MaxSteps == 6          \* entries the file trees start with, plus 3 per SFTP call
MaxFaults == 1         \* requests of one operation the transport fails

Ids == 1..MaxIds
Ops == 1..MaxOps
NoId == 0

\* credentials.port is optional; an omitted port is the value 0 here, which
\* the code's `port || 22` treats exactly like undefined
Undefined == 0
DefaultPort == 22
OtherPort == DefaultPort + 1
Hosts == {"h1"}
Ports == {Undefined, DefaultPort, OtherPort}
Users == {"root"}
SSHCredentials == [host : Hosts, port : Ports, username : Users]
NoCred == [host |-> "", port |-> Undefined, username |-> ""]
CmdTimeouts == {1, MaxCmdTimeout}

VARIABLES
  sessions,   \* the Map's keys in insertion order (Map iteration order)
  obj,        \* the SSHSession objects, by id (they outlive the registry)
  handles,    \* per id, how often client.end() and sftp.end() were called,
              \* and whether the connection was lost from the other side
  pc,         \* where the createSession call that made each id stands
  nextId,     \* the next fresh uuid
  ops,        \* executeCommand promises with their timer and stream
  shutdown,   \* the cleanup interval and the closeAllSessions call of destroy
  batch,      \* one executeCommands call with the executions it started
  sudo,       \* one executeSudoCommand call
  fs,         \* the remote and local file trees and one SFTP operation
  last        \* the last call or callback and what its caller observed

vars == <<sessions, obj, handles, pc, nextId, ops, shutdown, batch, sudo, fs, last>>

\* ------------------------------------------------------------ helpers
Registered == {sessions[i] : i \in 1..Len(sessions)}

\* what the caller of the last call saw: the operation, its outcome, the id
\* it returned (createSession) and the ids it closed (the sweep)
Event(op, result, ret, ids) ==
  [op |-> op, result |-> result, ret |-> ret, ids |-> ids]

Sat(n, cap) == IF n < cap THEN n + 1 ELSE cap

NoSession ==
  [credentials |-> NoCred, sftp |-> FALSE, isConnected |-> FALSE,
   idleFor |-> 0, commandCount |-> 0]

\* the close event's arguments: an exit code, or null with a signal name
\* (null is the value 256 here, which is no exit status and not the -1 of
\* executeCommands)
NullCode == 256
NoSignal == "null"
ExitEvents == {[code |-> 0, signal |-> NoSignal],
               [code |-> 1, signal |-> NoSignal],
               [code |-> NullCode, signal |-> "TERM"]}

\* a chunk is the text data.toString(encoding) gives for one 'data' event
Chunks == {<<" ", "a">>, <<"b", " ">>}

\* what the promise of an execution was settled with: a CommandResult
\* (error "none") or the error it was rejected with
NoResult == [error |-> "unsettled", stdout |-> <<>>, stderr |-> <<>>,
             exitCode |-> NullCode, signal |-> NoSignal]

NoOp == [pc |-> "none", sid |-> NoId, timeout |-> 1, elapsed |-> 0,
         timer |-> FALSE, stream |-> "none",
         stdout |-> <<>>, stderr |-> <<>>, arrived |-> <<>>, result |-> NoResult]

MaxSeqLen == 2         \* commands given to one executeCommands call

\* no executeCommands, executeSudoCommand or SFTP operation has been called
NoSeq == [pc |-> "idle", n |-> 0, stopOnError |-> FALSE, k |-> 0,
          run |-> [j \in 1..MaxSeqLen |-> NoOp], results |-> <<>>]
NoPassword == ""
NoSudo == [pc |-> "idle", sid |-> NoId, sudoPassword |-> NoPassword,
           passwordSent |-> FALSE, written |-> <<>>, echoed |-> 0, events |-> 0,
           stdout |-> <<>>, stderr |-> <<>>, timer |-> FALSE, stream |-> "none",
           result |-> NoResult]

\* A path is the sequence of its segments (remotePath.split('/')); the names
\* of a directory are listed in the order of Names.
Names == <<"a", "b">>
\* a run is one operation on trees of up to MaxSteps - 3 entries, or
\* more operations on smaller trees; the trees are at most that deep
MaxDepth == MaxSteps - 3
RECURSIVE PathsOfLen(_)
PathsOfLen(n) ==
  IF n = 0 THEN {<<>>}
  ELSE {Append(p, Names[i]) : p \in PathsOfLen(n - 1), i \in 1..Len(Names)}
Paths == UNION {PathsOfLen(n) : n \in 0..MaxDepth}
Dirname(p) == SubSeq(p, 1, Len(p) - 1)

\* a file tree: per path "none", "dir", or the content of a regular file
Contents == {"old", "new"}
EmptyTree == [p \in Paths |-> IF p = <<>> THEN "dir" ELSE "none"]

\* the flags and the permission word of a FileInfo
NoInfo == [isDirectory |-> FALSE, isFile |-> FALSE, isSymbolicLink |-> FALSE,
           permissions |-> 0]
\* the TransferResult a directory transfer starts with
NoTransfer == [success |-> TRUE, transferred |-> <<>>, failed |-> <<>>, errors |-> {}]
\* no SFTP operation has been called: the operation, its arguments, the
\* requests it sent to the transport in order, and what its caller saw
NoCall == [op |-> "none", path |-> <<>>, to |-> <<>>, option |-> FALSE,
           sftp |-> TRUE, faults |-> {}, log |-> <<>>, ok |-> TRUE,
           error |-> <<>>, value |-> FALSE, mode |-> 0, info |-> NoInfo,
           result |-> NoTransfer]
\* uploads: two uploadFile calls followed step by step, each with the place
\* it stands at and the error it raised
NoFs == [remote |-> EmptyTree, local |-> EmptyTree, made |-> 0, calls |-> 0,
         call |-> NoCall,
         uploads |-> [c \in {1, 2} |->
                        [pc |-> "none", localPath |-> <<>>, remotePath |-> <<>>,
                         error |-> <<>>]]]

\* the manager as constructed: the sweep's interval is set and destroy has
\* not been called; sessionIds and i are closeAllSessions' locals
NoShutdown == [cleanupInterval |-> TRUE, pc |-> "idle", sessionIds |-> <<>>, i |-> 1]

\* credentials.port || 22
NormPort(p) == IF p = Undefined THEN DefaultPort ELSE p

RECURSIVE FindFrom(_, _)
FindFrom(i, credentials) ==
  IF i > Len(sessions) THEN NoId
  ELSE IF /\ obj[sessions[i]].credentials.host = credentials.host
          /\ obj[sessions[i]].credentials.port = NormPort(credentials.port)
          /\ obj[sessions[i]].credentials.username = credentials.username
       THEN sessions[i]
       ELSE FindFrom(i + 1, credentials)

findExistingSession(credentials) == FindFrom(1, credentials)

AtCeilingOff == Len(sessions) > maxSessions
AtCeiling == Len(sessions) >= maxSessions

ExpiredLate(o) == o.idleFor > sessionTimeout + 1
Expired(o) == o.idleFor > sessionTimeout

RemoveNothing(seq, S) == seq
\* this.sessions.delete for each id of S
Remove(seq, S) == SelectSeq(seq, LAMBDA x : x \notin S)

\* client.end() on the handle h
EndClient(h) == [h EXCEPT !.clientEnd = Sat(@, 2)]
EndSftp(h) == [h EXCEPT !.sftpEnd = Sat(@, 2)]

\* the catch block of createSession: client.end()
ReleaseNothing(h) == h
ReleaseOnFailure(h) == EndClient(h)

Init ==
  /\ sessions = <<>>
  /\ obj = [i \in Ids |-> NoSession]
  /\ handles = [i \in Ids |-> [clientEnd |-> 0, sftpEnd |-> 0, lost |-> FALSE]]
  /\ pc = [i \in Ids |-> "free"]
  /\ nextId = 1
  /\ ops = [o \in Ops |-> NoOp]
  /\ shutdown = NoShutdown
  /\ batch = NoSeq /\ sudo = NoSudo /\ fs = NoFs
  /\ last = Event("init", "ok", NoId, {})

\* ------------------------------------------------- SessionManager

\* getSession's effect on the heap and the outcome its caller sees
GetResult(sid) ==
  IF sid \notin Registered THEN "NotFound"
  ELSE IF ~obj[sid].isConnected THEN "NotConnected"
  ELSE "ok"

TouchNothing(sid) == obj
\* session.lastActivity = Date.now()
Touch(sid) == [obj EXCEPT ![sid].idleFor = 0]

\* createSession up to its first await (or its synchronous return/throw).
\* hasAuth = FALSE is the "No authentication method provided" rejection of
\* connectClient, which the catch block turns into the failure at once.
CreateSession(credentials, hasAuth) ==
  LET existing == findExistingSession(credentials) IN
  IF existing # NoId /\ obj[existing].isConnected
  THEN /\ obj' = Touch(existing)
       /\ last' = Event("createSession", "ok", existing, {})
       /\ UNCHANGED <<sessions, handles, pc, nextId, ops, shutdown, batch, sudo, fs>>
  ELSE IF AtCeiling
  THEN /\ last' = Event("createSession", "LimitReached", NoId, {})
       /\ UNCHANGED <<sessions, obj, handles, pc, nextId, ops, shutdown, batch, sudo, fs>>
  ELSE /\ nextId <= MaxIds
       /\ IF hasAuth
          THEN /\ obj' = [obj EXCEPT ![nextId] =
                            [NoSession EXCEPT !.credentials = credentials]]
               /\ pc' = [pc EXCEPT ![nextId] = "connecting"]
               /\ last' = Event("createSession", "await", NoId, {})
               /\ UNCHANGED handles
          ELSE /\ handles' = [handles EXCEPT ![nextId] = ReleaseOnFailure(@)]
               /\ pc' = [pc EXCEPT ![nextId] = "failed"]
               /\ last' = Event("createSession", "error", NoId, {})
               /\ UNCHANGED obj
       /\ nextId' = nextId + 1
       /\ UNCHANGED <<sessions, ops, shutdown, batch, sudo, fs>>

\* client 'ready': connectClient resolves, createSession calls initSFTP
ConnectReady(id) ==
  /\ pc[id] = "connecting"
  /\ pc' = [pc EXCEPT ![id] = "initSFTP"]
  /\ last' = Event("ready", "await", NoId, {})
  /\ UNCHANGED <<sessions, obj, handles, nextId, ops, shutdown, batch, sudo, fs>>

\* client 'error' before ready: reject, then the catch block
ConnectError(id) ==
  /\ pc[id] = "connecting"
  /\ pc' = [pc EXCEPT ![id] = "failed"]
  /\ handles' = [handles EXCEPT ![id] = ReleaseOnFailure(@)]
  /\ obj' = [obj EXCEPT ![id] = NoSession]
  /\ last' = Event("connectError", "error", NoId, {})
  /\ UNCHANGED <<sessions, nextId, ops, shutdown, batch, sudo, fs>>

\* the readyTimeout timer: client.end(), reject, then the catch block
ConnectTimeout(id) ==
  /\ pc[id] = "connecting"
  /\ pc' = [pc EXCEPT ![id] = "failed"]
  /\ handles' = [handles EXCEPT ![id] = ReleaseOnFailure(EndClient(@))]
  /\ obj' = [obj EXCEPT ![id] = NoSession]
  /\ last' = Event("connectTimeout", "error", NoId, {})
  /\ UNCHANGED <<sessions, nextId, ops, shutdown, batch, sudo, fs>>

\* client.sftp callback without error: the session is completed and registered
SftpReady(id) ==
  /\ pc[id] = "initSFTP"
  /\ obj' = [obj EXCEPT ![id].sftp = TRUE, ![id].isConnected = TRUE]
  /\ sessions' = Append(sessions, id)
  /\ pc' = [pc EXCEPT ![id] = "returned"]
  /\ last' = Event("sftpReady", "ok", id, {})
  /\ UNCHANGED <<handles, nextId, ops, shutdown, batch, sudo, fs>>

\* client.sftp callback with an error: reject, then the catch block
SftpError(id) ==
  /\ pc[id] = "initSFTP"
  /\ pc' = [pc EXCEPT ![id] = "failed"]
  /\ handles' = [handles EXCEPT ![id] = ReleaseOnFailure(@)]
  /\ obj' = [obj EXCEPT ![id] = NoSession]
  /\ last' = Event("sftpError", "error", NoId, {})
  /\ UNCHANGED <<sessions, nextId, ops, shutdown, batch, sudo, fs>>

\* client 'error' after 'ready', when the connection of an established
\* session is lost: the handler of connectClient clears a timer that was
\* cleared and rejects a promise that is resolved; there is no handler for
\* 'close' or 'end'
ClientError(id) ==
  /\ pc[id] = "returned" /\ ~handles[id].lost /\ handles[id].clientEnd = 0
  /\ handles' = [handles EXCEPT ![id].lost = TRUE]
  /\ last' = Event("clientError", "ok", NoId, {})
  /\ UNCHANGED <<sessions, obj, pc, nextId, ops, shutdown, batch, sudo, fs>>

GetSession(sid) ==
  /\ obj' = IF GetResult(sid) = "ok" THEN Touch(sid) ELSE obj
  /\ last' = Event("getSession", GetResult(sid), NoId, {})
  /\ UNCHANGED <<sessions, handles, pc, nextId, ops, shutdown, batch, sudo, fs>>

\* the try/catch of closeSession on one session object; fault says which
\* end() call throws
Faults == {"none", "sftp", "client"}

\* the handles after the try block: sftp.end() if sftp is set, then
\* client.end(), unless the first throws
CloseHandles(o, h, fault) ==
  IF o.sftp /\ fault = "sftp" THEN EndSftp(h)
  ELSE EndClient(IF o.sftp THEN EndSftp(h) ELSE h)

\* session.isConnected = false is reached only when neither end() throws
CloseObj(o, fault) ==
  IF (o.sftp /\ fault = "sftp") \/ fault = "client" THEN o
  ELSE [o EXCEPT !.isConnected = FALSE]

\* a session that left the registry is no longer looked at by the sweep:
\* its idle time is not tracked any further
Unwatch(o) == [o EXCEPT !.idleFor = 0]

closeSession(sessionId, fault) ==
  IF sessionId \notin Registered
  THEN /\ last' = Event("closeSession", "NotFound", NoId, {})
       /\ UNCHANGED <<sessions, obj, handles, pc, nextId, ops, shutdown, batch, sudo, fs>>
  ELSE /\ obj' = [obj EXCEPT ![sessionId] = Unwatch(CloseObj(@, fault))]
       /\ handles' = [handles EXCEPT ![sessionId] =
                        CloseHandles(obj[sessionId], @, fault)]
       /\ sessions' = Remove(sessions, {sessionId})
       /\ last' = Event("closeSession", "ok", NoId, {})
       /\ UNCHANGED <<pc, nextId, ops, shutdown, batch, sudo, fs>>

\* the setInterval callback: collect the expired ids, close each of them
\* (closeSession has no await, so each close completes inside the loop)
cleanupExpiredSessions(faults) ==
  LET expiredSessions == {id \in Registered : Expired(obj[id])} IN
  /\ obj' = [id \in Ids |-> IF id \in expiredSessions
                            THEN Unwatch(CloseObj(obj[id], faults[id]))
                            ELSE obj[id]]
  /\ handles' = [id \in Ids |-> IF id \in expiredSessions
                                THEN CloseHandles(obj[id], handles[id], faults[id])
                                ELSE handles[id]]
  /\ sessions' = Remove(sessions, expiredSessions)
  /\ last' = Event("sweep", "ok", NoId, expiredSessions)
  /\ UNCHANGED <<pc, nextId, ops, shutdown, batch, sudo, fs>>

\* one element of listSessions' result; lastActivity is read as the idle time
SessionInfo(s) ==
  [sessionId |-> s, host |-> obj[s].credentials.host,
   username |-> obj[s].credentials.username,
   isConnected |-> obj[s].isConnected, idleFor |-> obj[s].idleFor,
   commandCount |-> obj[s].commandCount]

listSessionsEverReturned ==
  LET all == SelectSeq([i \in 1..MaxIds |-> i], LAMBDA s : pc[s] = "returned") IN
  [i \in 1..Len(all) |-> SessionInfo(all[i])]
\* Array.from(this.sessions.values()).filter(isConnected).map(summary)
listSessions ==
  LET connected == SelectSeq(sessions, LAMBDA s : obj[s].isConnected) IN
  [i \in 1..Len(connected) |-> SessionInfo(connected[i])]

\* the ssh_list_sessions tool: its caller sees the ids of the summaries
ListSessions ==
  /\ last' = Event("listSessions", "ok", NoId,
                   {listSessions[i].sessionId : i \in 1..Len(listSessions)})
  /\ UNCHANGED <<sessions, obj, handles, pc, nextId, ops, shutdown, batch, sudo, fs>>

\* destroy(), called by shutdown() on SIGINT/SIGTERM: clearInterval, then
\* closeAllSessions up to its first await (the snapshot of the keys and the
\* first closeSession); the promise is dropped and destroy returns
Destroy(fault) ==
  /\ shutdown.pc = "idle"
  /\ IF sessions = <<>>
     THEN /\ shutdown' = [cleanupInterval |-> FALSE, pc |-> "resolved",
                          sessionIds |-> <<>>, i |-> 1]
          /\ UNCHANGED <<sessions, obj, handles>>
     ELSE /\ shutdown' = [cleanupInterval |-> FALSE, pc |-> "running",
                          sessionIds |-> sessions, i |-> 2]
          /\ obj' = [obj EXCEPT ![sessions[1]] = Unwatch(CloseObj(@, fault))]
          /\ handles' = [handles EXCEPT ![sessions[1]] =
                           CloseHandles(obj[sessions[1]], @, fault)]
          /\ sessions' = Remove(sessions, {sessions[1]})
  /\ last' = Event("destroy", "ok", NoId, {})
  /\ UNCHANGED <<pc, nextId, ops, batch, sudo, fs>>

\* closeAllSessions resumed after `await this.closeSession(sessionId)`: the
\* next iteration of the loop, or the end of the loop.  A closeSession that
\* throws (session not found) rejects closeAllSessions and ends the loop.
CloseAllStep(fault) ==
  LET sessionId == shutdown.sessionIds[shutdown.i] IN
  /\ shutdown.pc = "running"
  /\ IF shutdown.i > Len(shutdown.sessionIds)
     THEN /\ shutdown' = [shutdown EXCEPT !.pc = "resolved"]
          /\ UNCHANGED <<sessions, obj, handles>>
     ELSE IF sessionId \notin Registered
     THEN /\ shutdown' = [shutdown EXCEPT !.pc = "rejected"]
          /\ UNCHANGED <<sessions, obj, handles>>
     ELSE /\ shutdown' = [shutdown EXCEPT !.i = @ + 1]
          /\ obj' = [obj EXCEPT ![sessionId] = Unwatch(CloseObj(@, fault))]
          /\ handles' = [handles EXCEPT ![sessionId] =
                           CloseHandles(obj[sessionId], @, fault)]
          /\ sessions' = Remove(sessions, {sessionId})
  /\ last' = Event("closeAllStep", "ok", NoId, {})
  /\ UNCHANGED <<pc, nextId, ops, batch, sudo, fs>>

\* shutdown() after destroy(): `await server.close()`, then process.exit(0).
\* Nothing orders the exit after the dropped closeAllSessions promise.
ProcessExit ==
  /\ shutdown.pc \in {"running", "resolved", "rejected"}
  /\ shutdown' = [shutdown EXCEPT !.pc = "exited"]
  /\ last' = Event("exit", "ok", NoId, {})
  /\ UNCHANGED <<sessions, obj, handles, pc, nextId, ops, batch, sudo, fs>>

\* ---------------------------------------------------- SSHExecutor

\* String.prototype.trim on a text of the characters " ", "a", "b"
RECURSIVE TrimStart(_)
TrimStart(t) == IF t # <<>> /\ Head(t) = " " THEN TrimStart(Tail(t)) ELSE t

RECURSIVE TrimEnd(_)
TrimEnd(t) ==
  IF t # <<>> /\ t[Len(t)] = " " THEN TrimEnd(SubSeq(t, 1, Len(t) - 1)) ELSE t

Trim(t) == TrimEnd(TrimStart(t))

\* the object the close handler passes to resolve
CommandResult(o, code, sig) ==
  [error |-> "none", stdout |-> Trim(o.stdout), stderr |-> Trim(o.stderr),
   exitCode |-> code, signal |-> sig]

\* reject(error): the three errors executeCommand rejects with
Rejection(error) == [NoResult EXCEPT !.error = error]

SettleAgain(o, outcome, result) == [o EXCEPT !.pc = outcome, !.result = result]
\* resolve / reject of the promise: only the first call has an effect
Settle(o, outcome, result) ==
  IF o.pc = "pending" THEN [o EXCEPT !.pc = outcome, !.result = result] ELSE o

\* the executions whose stream may still close on session sid
InFlight(sid) ==
  Cardinality({o \in Ops : ops[o].sid = sid /\ ops[o].stream \in {"opening", "open"}})

\* tools/command.ts exec: getSession, then executeCommand up to client.exec
ExecCommand(o, sid, timeout) ==
  /\ ops[o].pc # "pending" /\ ~ops[o].timer
  /\ ops[o].stream \notin {"opening", "open"}
  /\ GetResult(sid) = "ok" => obj[sid].commandCount + InFlight(sid) < MaxCommands
  /\ obj' = IF GetResult(sid) = "ok" THEN Touch(sid) ELSE obj
  /\ ops' = IF GetResult(sid) = "ok"
            THEN [ops EXCEPT ![o] = [NoOp EXCEPT !.pc = "pending", !.sid = sid,
                                     !.timeout = timeout, !.timer = TRUE,
                                     !.stream = "opening"]]
            ELSE ops
  /\ last' = Event("exec", GetResult(sid), NoId, {})
  /\ UNCHANGED <<sessions, handles, pc, nextId, shutdown, batch, sudo, fs>>

\* the callback of client.exec
ExecCallback(o, err) ==
  /\ ops[o].stream = "opening"
  /\ ops' = [ops EXCEPT ![o] =
       IF err THEN [Settle(@, "rejected", Rejection("exec"))
                      EXCEPT !.timer = FALSE, !.stream = "none"]
       ELSE [@ EXCEPT !.stream = "open"]]
  /\ last' = Event("execCallback", IF err THEN "error" ELSE "await", NoId, {})
  /\ UNCHANGED <<sessions, obj, handles, pc, nextId, shutdown, batch, sudo, fs>>

\* stream 'data' and stream.stderr 'data': the text is appended; arrived is
\* the history of the data events of the execution, in arrival order
StreamData(o, data) ==
  /\ ops[o].stream = "open" /\ Len(ops[o].arrived) < MaxChunks
  /\ ops' = [ops EXCEPT ![o].stdout = @ \o data,
                        ![o].arrived = Append(@, [fd |-> "stdout", data |-> data])]
  /\ last' = Event("data", "ok", NoId, {})
  /\ UNCHANGED <<sessions, obj, handles, pc, nextId, shutdown, batch, sudo, fs>>

StderrIntoStdout(o, data) ==
  /\ ops[o].stream = "open" /\ Len(ops[o].arrived) < MaxChunks
  /\ ops' = [ops EXCEPT ![o].stdout = @ \o data,
                        ![o].arrived = Append(@, [fd |-> "stderr", data |-> data])]
  /\ last' = Event("stderrData", "ok", NoId, {})
  /\ UNCHANGED <<sessions, obj, handles, pc, nextId, shutdown, batch, sudo, fs>>
StderrData(o, data) ==
  /\ ops[o].stream = "open" /\ Len(ops[o].arrived) < MaxChunks
  /\ ops' = [ops EXCEPT ![o].stderr = @ \o data,
                        ![o].arrived = Append(@, [fd |-> "stderr", data |-> data])]
  /\ last' = Event("stderrData", "ok", NoId, {})
  /\ UNCHANGED <<sessions, obj, handles, pc, nextId, shutdown, batch, sudo, fs>>

\* stream 'close' with the exit code and signal of the event
StreamClose(o, code, sig) ==
  /\ ops[o].stream = "open"
  /\ obj' = [obj EXCEPT ![ops[o].sid].commandCount = @ + 1,
                        ![ops[o].sid].idleFor = 0]
  /\ ops' = [ops EXCEPT ![o] =
       [Settle(@, "resolved", CommandResult(@, code, sig))
          EXCEPT !.timer = FALSE, !.stream = "closed"]]
  /\ last' = Event("streamClose", "ok", NoId, {})
  /\ UNCHANGED <<sessions, handles, pc, nextId, shutdown, batch, sudo, fs>>

StreamErrorKeepsTimer(o) ==
  /\ ops[o].stream = "open"
  /\ ops' = [ops EXCEPT ![o] = Settle(@, "rejected", Rejection("stream"))]
  /\ last' = Event("streamError", "error", NoId, {})
  /\ UNCHANGED <<sessions, obj, handles, pc, nextId, shutdown, batch, sudo, fs>>
\* stream 'error'
StreamError(o) ==
  /\ ops[o].stream = "open"
  /\ ops' = [ops EXCEPT ![o] =
       [Settle(@, "rejected", Rejection("stream")) EXCEPT !.timer = FALSE]]
  /\ last' = Event("streamError", "error", NoId, {})
  /\ UNCHANGED <<sessions, obj, handles, pc, nextId, shutdown, batch, sudo, fs>>

ExecTimeoutForgetsReject(o) ==
  /\ ops[o].timer /\ ops[o].elapsed >= ops[o].timeout
  /\ ops' = [ops EXCEPT ![o].timer = FALSE]
  /\ last' = Event("execTimeout", "error", NoId, {})
  /\ UNCHANGED <<sessions, obj, handles, pc, nextId, shutdown, batch, sudo, fs>>
\* the setTimeout callback of executeCommand
ExecTimeout(o) ==
  /\ ops[o].timer /\ ops[o].elapsed >= ops[o].timeout
  /\ ops' = [ops EXCEPT ![o] =
       [Settle(@, "rejected", Rejection("timeout")) EXCEPT !.timer = FALSE]]
  /\ last' = Event("execTimeout", "error", NoId, {})
  /\ UNCHANGED <<sessions, obj, handles, pc, nextId, shutdown, batch, sudo, fs>>

\* ------------------------------------------- SSHExecutor.executeCommands
\* The commands of the array are known by their index 1..n.  run[j] is the
\* executeCommand call made for command j: its promise, timer and stream.
\* The delay of a timer is not followed here: an armed timer may fire at any
\* moment.

\* the entry the catch block pushes; the message is the error's name
FailureResult(message) ==
  [error |-> "none", stdout |-> <<>>, stderr |-> <<message>>,
   exitCode |-> 0 - 1, signal |-> NoSignal]

BreakNever(stopOnError, result, failed) == FALSE
\* the two `if (stopOnError ...) break` tests of the loop
Break(stopOnError, result, failed) ==
  stopOnError /\ (failed \/ result.exitCode # 0)

\* executeCommand up to client.exec: the timer is armed, the stream requested
Started(sid) ==
  [NoOp EXCEPT !.pc = "pending", !.sid = sid, !.timer = TRUE, !.stream = "opening"]

\* executeCommands resumed by the settled promise of command k: the result
\* (or the catch block's entry) is pushed, then the loop breaks, ends or
\* calls executeCommand for the next command
Resume(b) ==
  LET r == b.run[b.k].result
      failed == r.error # "none"
      entry == IF failed THEN FailureResult(r.error) ELSE r
      results == Append(b.results, entry)
  IN IF Break(b.stopOnError, entry, failed) \/ b.k = b.n
     THEN [b EXCEPT !.pc = "returned", !.results = results]
     ELSE [b EXCEPT !.k = @ + 1, !.results = results,
                    !.run[b.k + 1] = Started(b.run[b.k].sid)]

\* a handler of execution j has left its record as rec; if that settled the
\* promise executeCommands awaits, executeCommands resumes
Handled(b, j, rec) ==
  LET b1 == [b EXCEPT !.run[j] = rec] IN
  IF b.pc = "awaiting" /\ j = b.k /\ b.run[j].pc = "pending" /\ rec.pc # "pending"
  THEN Resume(b1) ELSE b1

\* executeCommands(session, commands, {stopOnError}) up to its first await
executeCommands(sid, n, stopOnError) ==
  /\ batch.pc = "idle" /\ pc[sid] = "returned"
  /\ batch' = IF n = 0
              THEN [NoSeq EXCEPT !.pc = "returned", !.stopOnError = stopOnError]
              ELSE [NoSeq EXCEPT !.pc = "awaiting", !.n = n, !.k = 1,
                                 !.stopOnError = stopOnError,
                                 !.run[1] = Started(sid)]
  /\ last' = Event("executeCommands", "await", NoId, {})
  /\ UNCHANGED <<sessions, obj, handles, pc, nextId, ops, shutdown, sudo, fs>>

\* the handlers of executeCommand, for execution j of the batch
BatchExecCallback(j, err) ==
  /\ batch.run[j].stream = "opening"
  /\ batch' = Handled(batch, j,
       IF err THEN [Settle(batch.run[j], "rejected", Rejection("exec"))
                      EXCEPT !.timer = FALSE, !.stream = "none"]
       ELSE [batch.run[j] EXCEPT !.stream = "open"])
  /\ last' = Event("execCallback", IF err THEN "error" ELSE "await", NoId, {})
  /\ UNCHANGED <<sessions, obj, handles, pc, nextId, ops, shutdown, sudo, fs>>

\* 'close' also follows an 'error'
BatchStreamClose(j, code, sig) ==
  /\ batch.run[j].stream \in {"open", "errored"}
  /\ obj' = [obj EXCEPT ![batch.run[j].sid].commandCount = @ + 1,
                        ![batch.run[j].sid].idleFor = 0]
  /\ batch' = Handled(batch, j,
       [Settle(batch.run[j], "resolved", CommandResult(batch.run[j], code, sig))
          EXCEPT !.timer = FALSE, !.stream = "closed"])
  /\ last' = Event("streamClose", "ok", NoId, {})
  /\ UNCHANGED <<sessions, handles, pc, nextId, ops, shutdown, sudo, fs>>

BatchStreamError(j) ==
  /\ batch.run[j].stream = "open"
  /\ batch' = Handled(batch, j,
       [Settle(batch.run[j], "rejected", Rejection("stream"))
          EXCEPT !.timer = FALSE, !.stream = "errored"])
  /\ last' = Event("streamError", "error", NoId, {})
  /\ UNCHANGED <<sessions, obj, handles, pc, nextId, ops, shutdown, sudo, fs>>

BatchExecTimeout(j) ==
  /\ batch.run[j].timer
  /\ batch' = Handled(batch, j,
       [Settle(batch.run[j], "rejected", Rejection("timeout")) EXCEPT !.timer = FALSE])
  /\ last' = Event("execTimeout", "error", NoId, {})
  /\ UNCHANGED <<sessions, obj, handles, pc, nextId, ops, shutdown, sudo, fs>>

\* --------------------------------------- SSHExecutor.executeSudoCommand
\* A text is a sequence of pieces: " ", a piece of ordinary output, one of
\* the two prompts the code knows, a prompt in another letter case, or a
\* password.
Passwords == {"pw1", "pw2"}
SudoPrompt == "[sudo] password for u:"
PasswordPrompt == "Password:"
SudoChunks == {<<"out">>, <<SudoPrompt>>, <<PasswordPrompt, " ", "out">>,
               <<"PASSWORD:">>}

\* text.includes('password') || text.includes('Password')
HasPrompt(text) ==
  \E i \in 1..Len(text) : text[i] \in {SudoPrompt, PasswordPrompt}

\* stderr.replace(/\[sudo\] password for .+?:/g, '').replace(/Password:/g, '')
RemovePrompts(text) ==
  SelectSeq(text, LAMBDA piece : piece \notin {SudoPrompt, PasswordPrompt})

\* executeSudoCommand up to client.exec; with a password the command is
\* run on a pty
executeSudoCommand(sid, sudoPassword) ==
  /\ sudo.pc = "idle" /\ pc[sid] = "returned"
  /\ sudo' = [NoSudo EXCEPT !.pc = "pending", !.sid = sid,
                            !.sudoPassword = sudoPassword,
                            !.timer = TRUE, !.stream = "opening"]
  /\ last' = Event("executeSudoCommand", "await", NoId, {})
  /\ UNCHANGED <<sessions, obj, handles, pc, nextId, ops, shutdown, batch, fs>>

SudoSettle(s, outcome, result) ==
  IF s.pc = "pending" THEN [s EXCEPT !.pc = outcome, !.result = result] ELSE s

SudoExecCallback(err) ==
  /\ sudo.stream = "opening"
  /\ sudo' = IF err
             THEN [SudoSettle(sudo, "rejected", Rejection("exec"))
                     EXCEPT !.timer = FALSE, !.stream = "none"]
             ELSE [sudo EXCEPT !.stream = "open"]
  /\ last' = Event("execCallback", IF err THEN "error" ELSE "await", NoId, {})
  /\ UNCHANGED <<sessions, obj, handles, pc, nextId, ops, shutdown, batch, fs>>

\* what the remote end can send on stdout: output and prompts, and, on the
\* pty, the echo of what was written to the stream
Echo == IF sudo.echoed < Len(sudo.written)
        THEN {<<sudo.written[sudo.echoed + 1]>>} ELSE {}

\* stream 'data': a text with a prompt makes the password be written, once,
\* and is dropped; every other text is appended to stdout
SudoData(text) ==
  /\ sudo.stream = "open"
  /\ text \in Echo \/ sudo.events < MaxChunks
  /\ sudo' =
       LET s == IF text \in Echo THEN [sudo EXCEPT !.echoed = @ + 1]
                ELSE [sudo EXCEPT !.events = @ + 1]
       IN IF ~s.passwordSent /\ s.sudoPassword # NoPassword /\ HasPrompt(text)
          THEN [s EXCEPT !.written = Append(@, s.sudoPassword),
                         !.passwordSent = TRUE]
          ELSE [s EXCEPT !.stdout = @ \o text]
  /\ last' = Event("data", "ok", NoId, {})
  /\ UNCHANGED <<sessions, obj, handles, pc, nextId, ops, shutdown, batch, fs>>

SudoStderrData(text) ==
  /\ sudo.stream = "open" /\ sudo.events < MaxChunks
  /\ sudo' = [sudo EXCEPT !.stderr = @ \o text, !.events = @ + 1]
  /\ last' = Event("stderrData", "ok", NoId, {})
  /\ UNCHANGED <<sessions, obj, handles, pc, nextId, ops, shutdown, batch, fs>>

SudoStreamClose(code, sig) ==
  /\ sudo.stream = "open"
  /\ obj' = [obj EXCEPT ![sudo.sid].commandCount = @ + 1,
                        ![sudo.sid].idleFor = 0]
  /\ sudo' = [SudoSettle(sudo, "resolved",
                [error |-> "none", stdout |-> Trim(sudo.stdout),
                 stderr |-> Trim(RemovePrompts(sudo.stderr)),
                 exitCode |-> code, signal |-> sig])
                EXCEPT !.timer = FALSE, !.stream = "closed"]
  /\ last' = Event("streamClose", "ok", NoId, {})
  /\ UNCHANGED <<sessions, handles, pc, nextId, ops, shutdown, batch, fs>>

SudoStreamError ==
  /\ sudo.stream = "open"
  /\ sudo' = [SudoSettle(sudo, "rejected", Rejection("stream")) EXCEPT !.timer = FALSE]
  /\ last' = Event("streamError", "error", NoId, {})
  /\ UNCHANGED <<sessions, obj, handles, pc, nextId, ops, shutdown, batch, fs>>

\* the delay of the timer is not followed: an armed timer may fire
SudoTimeout ==
  /\ sudo.timer
  /\ sudo' = [SudoSettle(sudo, "rejected", Rejection("timeout")) EXCEPT !.timer = FALSE]
  /\ last' = Event("execTimeout", "error", NoId, {})
  /\ UNCHANGED <<sessions, obj, handles, pc, nextId, ops, shutdown, batch, fs>>

\* ----------------------------------------------------- SFTPOperations
\* File mode constants (from stat.h)
S_IFMT == 61440
S_IFREG == 32768
S_IFDIR == 16384
S_IFLNK == 40960

\* a & b on non-negative words
RECURSIVE BitAnd(_, _)
BitAnd(a, b) ==
  IF a = 0 \/ b = 0 THEN 0
  ELSE (a % 2) * (b % 2) + 2 * BitAnd(a \div 2, b \div 2)

isDirectoryMode(mode) == BitAnd(mode, S_IFMT) = S_IFDIR
isFileMode(mode) == BitAnd(mode, S_IFMT) = S_IFREG
isSymlinkModeAnyLink(mode) == BitAnd(mode, S_IFLNK) = S_IFLNK
isSymlinkMode(mode) == BitAnd(mode, S_IFMT) = S_IFLNK

\* attrs.mode when the transport sent no permissions
NoMode == 0 - 1

\* attrsToFileInfo: the flags and permissions of a listing entry
attrsToFileInfo(attrsMode) ==
  LET mode == IF attrsMode = NoMode THEN 0 ELSE attrsMode IN
  [isDirectory |-> isDirectoryMode(mode), isFile |-> isFileMode(mode),
   isSymbolicLink |-> isSymlinkMode(mode), permissions |-> mode]

\* statsToFileInfo: the flags are those of the transport's Stats object,
\* which masks its mode the same way (an absent mode masks to 0)
statsToFileInfo(statsMode) ==
  LET mode == IF statsMode = NoMode THEN 0 ELSE statsMode IN
  [isDirectory |-> BitAnd(mode, S_IFMT) = S_IFDIR,
   isFile |-> BitAnd(mode, S_IFMT) = S_IFREG,
   isSymbolicLink |-> BitAnd(mode, S_IFMT) = S_IFLNK,
   permissions |-> statsMode]

\* the mode words a transport can report: every type field with some
\* permission bits, or none at all
ModeWords ==
  {type * 4096 + perm : type \in 0..15, perm \in {0, 420, 493, 4095}} \cup {NoMode}

\* the conversion of one entry the transport returned, by listDirectory
\* (attrs) or by stat (stats)
Classify(mode, through) ==
  /\ fs.calls = 0
  /\ fs' = [fs EXCEPT !.calls = @ + 1,
                      !.call = [NoCall EXCEPT
                         !.op = through, !.mode = mode,
                         !.info = IF through = "attrsToFileInfo"
                                  THEN attrsToFileInfo(mode)
                                  ELSE statsToFileInfo(mode)]]
  /\ UNCHANGED <<sessions, obj, handles, pc, nextId, ops, shutdown, batch, sudo, last>>

\* The transport.  An operation is followed through the requests it sends,
\* in order, as a world w: the two trees, the requests sent so far, the
\* requests the transport will fail (by their position) with the message it
\* fails them with, and whether session.lastActivity was set.  Without a
\* fault the server answers from its tree: 'No such file' for a missing path
\* or parent, 'Failure' for everything else it refuses.
FaultMessages == {"Failure", "Permission denied"}

\* the sets of at most MaxFaults requests an operation can be failed at:
\* Run[f] is the operation run with the requests of f failed, and a further
\* request can be failed only if that run sends it
MetFaults(Run) ==
  LET Met[n \in 0..MaxFaults] ==
        IF n = 0 THEN {{}}
        ELSE Met[n - 1] \cup
             UNION {{f \cup {i} : i \in 1..Len(Run[f].w.log)} : f \in Met[n - 1]}
  IN Met[MaxFaults]

World(faults, message) ==
  [remote |-> fs.remote, local |-> fs.local, log |-> <<>>, faults |-> faults,
   message |-> message, touched |-> FALSE]

\* the callback's err of one request; refusal is the server's own answer
Reply(w, req, p, refusal) ==
  LET err == IF (Len(w.log) + 1) \in w.faults THEN w.message ELSE refusal IN
  [w |-> [w EXCEPT !.log = Append(@, [req |-> req, path |-> p, err |-> err])],
   err |-> err]

\* the mode word the server reports for an entry of its tree
ModeOf(v) == IF v = "dir" THEN S_IFDIR + 493 ELSE S_IFREG + 420

ActiveNot(w) == w
\* session.lastActivity = Date.now()
Active(w) == [w EXCEPT !.touched = TRUE]

\* getSFTP, then sftp.stat and its callback
stat(sftp, w, p) ==
  IF ~sftp THEN [w |-> w, error |-> <<"SFTP client not initialized">>, info |-> NoInfo]
  ELSE
    LET r == Reply(w, "stat", p,
                   IF w.remote[p] = "none" THEN "No such file" ELSE "none") IN
    IF r.err # "none"
    THEN [w |-> r.w, error |-> <<"Failed to get stats", r.err>>, info |-> NoInfo]
    ELSE [w |-> Active(r.w), error |-> <<>>,
          info |-> statsToFileInfo(ModeOf(w.remote[p]))]

\* try { await stat; return true } catch { return false }
existsRethrows(sftp, w, p) ==
  LET s == stat(sftp, w, p) IN [w |-> s.w, error |-> s.error, value |-> s.error = <<>>]

exists(sftp, w, p) ==
  LET s == stat(sftp, w, p) IN [w |-> s.w, error |-> <<>>, value |-> s.error = <<>>]

\* the names of the entries of directory p of tree t, in listing order
Listing(t, p) ==
  SelectSeq(Names, LAMBDA name : Len(p) < MaxDepth /\ t[Append(p, name)] # "none")

\* getSFTP, then sftp.readdir and its callback
listDirectory(sftp, w, p) ==
  IF ~sftp THEN [w |-> w, error |-> <<"SFTP client not initialized">>, entries |-> <<>>]
  ELSE
    LET r == Reply(w, "readdir", p,
                   IF w.remote[p] = "none" THEN "No such file"
                   ELSE IF w.remote[p] # "dir" THEN "Failure" ELSE "none")
        names == Listing(w.remote, p) IN
    IF r.err # "none"
    THEN [w |-> r.w, error |-> <<"Failed to list directory", r.err>>, entries |-> <<>>]
    ELSE [w |-> Active(r.w), error |-> <<>>,
          entries |-> [i \in 1..Len(names) |->
                         [filename |-> names[i],
                          info |-> attrsToFileInfo(ModeOf(w.remote[Append(p, names[i])]))]]]

\* Which names a directory uses makes no difference to an operation: a new
\* entry is given the first name of Names that is free in its directory, and
\* so is every segment of an argument path that is missing from the tree.
FirstFree(t, p) ==
  \A i \in 1..Len(Names) :
     Names[i] = p[Len(p)] => \A j \in 1..(i - 1) : t[Append(Dirname(p), Names[j])] # "none"
Canonical(t, p) ==
  \A k \in 1..Len(p) :
     t[SubSeq(p, 1, k)] = "none" => FirstFree(t, SubSeq(p, 1, k))

\* An operation called on the established session and run to its end; r is
\* what it came to: the world, the error it raised (none: <<>>) and what it
\* returned.  Only the faults the operation met are kept.
CanCall == fs.made + 3 * (fs.calls + 1) <= MaxSteps
Called(op, path, to, option, sftp, r, value, result) ==
  /\ CanCall
  /\ fs' = [fs EXCEPT
       !.remote = r.w.remote, !.local = r.w.local, !.calls = @ + 1,
       !.call = [NoCall EXCEPT
          !.op = op, !.path = path, !.to = to, !.option = option, !.sftp = sftp,
          !.faults = {i \in r.w.faults : i <= Len(r.w.log)},
          !.log = r.w.log, !.ok = (r.error = <<>>), !.error = r.error,
          !.value = value, !.result = result]]
  /\ obj' = IF r.w.touched THEN Touch(1) ELSE obj
  /\ UNCHANGED <<sessions, handles, pc, nextId, ops, shutdown, batch, sudo, last>>

Exists(p, sftp) ==
  /\ CanCall /\ Canonical(fs.remote, p)
  /\ \E faults \in MetFaults([f \in SUBSET Nat |-> exists(sftp, World(f, "Failure"), p)]) :
    LET r == exists(sftp, World(faults, "Failure"), p) IN
    Called("exists", p, <<>>, FALSE, sftp, r, r.value, NoTransfer)

\* sftp.mkdir and the server's answer: the path is taken ('Failure'), or its
\* parent is missing or no directory ('No such file'), or it is created
SftpMkdir(w, p) ==
  LET r == Reply(w, "mkdir", p,
                 IF p = <<>> \/ w.remote[p] # "none" THEN "Failure"
                 ELSE IF w.remote[Dirname(p)] # "dir" THEN "No such file"
                 ELSE "none") IN
  IF r.err # "none" THEN r
  ELSE [r EXCEPT !.w.remote[p] = "dir"]

\* the loop of mkdirRecursive from the k-th prefix of p on
RECURSIVE MkdirFrom(_, _, _, _)
MkdirFrom(sftp, w, p, k) ==
  IF k > Len(p) THEN [w |-> Active(w), error |-> <<>>]
  ELSE
    LET currentPath == SubSeq(p, 1, k)
        s == stat(sftp, w, currentPath) IN
    IF s.error = <<>> THEN MkdirFrom(sftp, s.w, p, k + 1)
    ELSE
      LET m == SftpMkdir(s.w, currentPath) IN
      IF m.err \notin {"none", "Failure"}
      THEN [w |-> m.w, error |-> <<"Failed to create directory", m.err>>]
      ELSE MkdirFrom(sftp, m.w, p, k + 1)

mkdirRecursive(sftp, w, p) ==
  IF ~sftp THEN [w |-> w, error |-> <<"SFTP client not initialized">>]
  ELSE MkdirFrom(sftp, w, p, 1)

\* mkdir(session, remotePath, {recursive})
mkdirNoStat(sftp, w, p, recursive) ==
  IF ~sftp THEN [w |-> w, error |-> <<"SFTP client not initialized">>]
  ELSE LET m == SftpMkdir(w, p) IN
       IF m.err # "none"
       THEN [w |-> m.w, error |-> <<"Failed to create directory", m.err>>]
       ELSE [w |-> Active(m.w), error |-> <<>>]

mkdir(sftp, w, p, recursive) ==
  IF ~sftp THEN [w |-> w, error |-> <<"SFTP client not initialized">>]
  ELSE IF recursive THEN mkdirRecursive(sftp, w, p)
  ELSE LET m == SftpMkdir(w, p) IN
       IF m.err # "none"
       THEN [w |-> m.w, error |-> <<"Failed to create directory", m.err>>]
       ELSE [w |-> Active(m.w), error |-> <<>>]

Mkdir(p, recursive, message) ==
  /\ CanCall /\ Canonical(fs.remote, p)
  /\ \E faults \in MetFaults([f \in SUBSET Nat |-> mkdir(TRUE, World(f, message), p, recursive)]) :
    LET r == mkdir(TRUE, World(faults, message), p, recursive) IN
    Called("mkdir", p, <<>>, recursive, TRUE, r, FALSE, NoTransfer)

\* getSFTP, then sftp.unlink and its callback
unlink(sftp, w, p) ==
  IF ~sftp THEN [w |-> w, error |-> <<"SFTP client not initialized">>]
  ELSE
    LET r == Reply(w, "unlink", p,
                   IF w.remote[p] = "none" THEN "No such file"
                   ELSE IF w.remote[p] = "dir" THEN "Failure" ELSE "none") IN
    IF r.err # "none" THEN [w |-> r.w, error |-> <<"Failed to delete file", r.err>>]
    ELSE [w |-> Active([r.w EXCEPT !.remote[p] = "none"]), error |-> <<>>]

\* getSFTP, then sftp.rmdir and its callback; the server removes an empty
\* directory only
rmdir(sftp, w, p) ==
  IF ~sftp THEN [w |-> w, error |-> <<"SFTP client not initialized">>]
  ELSE
    LET r == Reply(w, "rmdir", p,
                   IF w.remote[p] = "none" THEN "No such file"
                   ELSE IF p = <<>> \/ w.remote[p] # "dir" \/ Listing(w.remote, p) # <<>>
                        THEN "Failure" ELSE "none") IN
    IF r.err # "none" THEN [w |-> r.w, error |-> <<"Failed to remove directory", r.err>>]
    ELSE [w |-> Active([r.w EXCEPT !.remote[p] = "none"]), error |-> <<>>]

\* removeRecursive: the listing, the loop over its entries from the i-th
\* on, then rmdir; the first error ends it
RECURSIVE removeRecursive(_, _, _)
RECURSIVE RemoveEntries(_, _, _, _, _)
RemoveEntries(sftp, w, p, entries, i) ==
  IF i > Len(entries) THEN rmdir(sftp, w, p)
  ELSE
    LET entryPath == Append(p, entries[i].filename)
        r == IF entries[i].info.isDirectory
             THEN removeRecursive(sftp, w, entryPath)
             ELSE unlink(sftp, w, entryPath) IN
    IF r.error # <<>> THEN r
    ELSE RemoveEntries(sftp, r.w, p, entries, i + 1)

removeRecursive(sftp, w, p) ==
  LET listing == listDirectory(sftp, w, p) IN
  IF listing.error # <<>> THEN [w |-> listing.w, error |-> listing.error]
  ELSE RemoveEntries(sftp, listing.w, p, listing.entries, 1)

\* remove(session, remotePath, {recursive}): every error is rethrown
removeFlat(sftp, w, p, recursive) ==
  LET stats == stat(sftp, w, p)
      r == IF stats.error # <<>> THEN [w |-> stats.w, error |-> stats.error]
           ELSE IF stats.info.isDirectory THEN rmdir(sftp, stats.w, p)
           ELSE unlink(sftp, stats.w, p) IN
  IF r.error = <<>> THEN r
  ELSE [r EXCEPT !.error = <<"Failed to remove">> \o @]

remove(sftp, w, p, recursive) ==
  LET stats == stat(sftp, w, p)
      r == IF stats.error # <<>> THEN [w |-> stats.w, error |-> stats.error]
           ELSE IF stats.info.isDirectory
                THEN IF recursive THEN removeRecursive(sftp, stats.w, p)
                     ELSE rmdir(sftp, stats.w, p)
           ELSE unlink(sftp, stats.w, p) IN
  IF r.error = <<>> THEN r
  ELSE [r EXCEPT !.error = <<"Failed to remove">> \o @]

RemovePath(p, recursive) ==
  /\ CanCall /\ Canonical(fs.remote, p)
  /\ \E faults \in MetFaults([f \in SUBSET Nat |-> remove(TRUE, World(f, "Failure"), p, recursive)]) :
    LET r == remove(TRUE, World(faults, "Failure"), p, recursive) IN
    Called("remove", p, <<>>, recursive, TRUE, r, FALSE, NoTransfer)

\* one of the operations that send a single request: stat, listDirectory,
\* unlink, rmdir
SingleEntry(op, p) ==
  LET run(f) == CASE op = "stat" -> stat(TRUE, World(f, "Failure"), p)
                  [] op = "listDirectory" -> listDirectory(TRUE, World(f, "Failure"), p)
                  [] op = "unlink" -> unlink(TRUE, World(f, "Failure"), p)
                  [] op = "rmdir" -> rmdir(TRUE, World(f, "Failure"), p) IN
  /\ CanCall /\ Canonical(fs.remote, p)
  /\ \E faults \in MetFaults([f \in SUBSET Nat |-> run(f)]) :
       Called(op, p, <<>>, FALSE, TRUE,
              [w |-> run(faults).w, error |-> run(faults).error], FALSE, NoTransfer)

\* fs.existsSync
existsSync(w, p) == w.local[p] # "none"

\* fs.mkdirSync(p, {recursive: true}): throws when a prefix is a file
mkdirSync(w, p) ==
  IF \E k \in 1..Len(p) : w.local[SubSeq(p, 1, k)] \notin {"none", "dir"}
  THEN [w |-> w, error |-> <<"mkdirSync failed">>]
  ELSE [w |-> [w EXCEPT !.local = [q \in Paths |->
                  IF \E k \in 1..Len(p) : q = SubSeq(p, 1, k) THEN "dir" ELSE @[q]]],
        error |-> <<>>]

\* sftp.fastPut: the local file is read and written to the remote path
fastPut(w, localPath, remotePath) ==
  LET r == Reply(w, "put", remotePath,
                 IF w.local[localPath] \in {"none", "dir"} THEN "Failure"
                 ELSE IF remotePath = <<>> \/ w.remote[remotePath] = "dir" THEN "Failure"
                 ELSE IF w.remote[Dirname(remotePath)] # "dir" THEN "No such file"
                 ELSE "none") IN
  IF r.err # "none" THEN r
  ELSE [r EXCEPT !.w.remote[remotePath] = w.local[localPath]]

\* sftp.fastGet: the remote file is read and written to the local path
fastGet(w, remotePath, localPath) ==
  LET r == Reply(w, "get", remotePath,
                 IF w.remote[remotePath] = "none" THEN "No such file"
                 ELSE IF w.remote[remotePath] = "dir" THEN "Failure"
                 ELSE IF localPath = <<>> \/ w.local[localPath] = "dir" THEN "Failure"
                 ELSE IF w.local[Dirname(localPath)] # "dir" THEN "No such file"
                 ELSE "none") IN
  IF r.err # "none" THEN r
  ELSE [r EXCEPT !.w.local[localPath] = w.remote[remotePath]]

\* uploadFile(session, localPath, remotePath, {overwrite})
uploadFile(sftp, w, localPath, remotePath, overwrite) ==
  IF ~sftp THEN [w |-> w, error |-> <<"SFTP client not initialized">>]
  ELSE IF ~existsSync(w, localPath) THEN [w |-> w, error |-> <<"Local file not found">>]
  ELSE
    LET e == IF overwrite THEN [w |-> w, error |-> <<>>, value |-> FALSE]
             ELSE exists(sftp, w, remotePath) IN
    IF e.value THEN [w |-> e.w, error |-> <<"Remote file already exists">>]
    ELSE
      LET r == fastPut(e.w, localPath, remotePath) IN
      IF r.err # "none" THEN [w |-> r.w, error |-> <<"Failed to upload file", r.err>>]
      ELSE [w |-> Active(r.w), error |-> <<>>]

\* downloadFile(session, remotePath, localPath, {overwrite})
downloadFile(sftp, w, remotePath, localPath, overwrite) ==
  IF ~sftp THEN [w |-> w, error |-> <<"SFTP client not initialized">>]
  ELSE
    LET e == exists(sftp, w, remotePath) IN
    IF ~e.value THEN [w |-> e.w, error |-> <<"Remote file not found">>]
    ELSE IF ~overwrite /\ existsSync(e.w, localPath)
    THEN [w |-> e.w, error |-> <<"Local file already exists">>]
    ELSE
      LET d == IF existsSync(e.w, Dirname(localPath)) THEN [w |-> e.w, error |-> <<>>]
               ELSE mkdirSync(e.w, Dirname(localPath)) IN
      IF d.error # <<>> THEN d
      ELSE
        LET r == fastGet(d.w, remotePath, localPath) IN
        IF r.err # "none" THEN [w |-> r.w, error |-> <<"Failed to download file", r.err>>]
        ELSE [w |-> Active(r.w), error |-> <<>>]

\* Object.assign(result.errors, more): errors is the set of <<path, message>>
Assign(errors, more) ==
  {e \in errors : \A m \in more : m[1] # e[1]} \cup more

\* the catch block of the loop over the entries
Caught(result, entryPath, error) ==
  [result EXCEPT !.failed = Append(@, entryPath),
                 !.errors = Assign(@, {<<entryPath, error>>}),
                 !.success = FALSE]

\* what the loop takes over from the result of a subdirectory
Merged(result, subResult) ==
  [result EXCEPT !.transferred = @ \o subResult.transferred,
                 !.failed = @ \o subResult.failed,
                 !.errors = Assign(@, subResult.errors)]

\* the file of an entry was transferred
Pushed(result, entryPath) == [result EXCEPT !.transferred = Append(@, entryPath)]

\* uploadDirectory: mkdir of the remote directory, readdirSync, then the loop
\* over the entries from the i-th on
RECURSIVE uploadDirectory(_, _, _, _, _)
RECURSIVE UploadEntries(_, _, _, _, _, _, _, _)
UploadEntriesUntilFailure(sftp, w, localPath, remotePath, overwrite, names, i, result) ==
  IF i > Len(names) \/ result.failed # <<>>
  THEN [w |-> w, error |-> <<>>, result |-> result]
  ELSE
    LET localEntryPath == Append(localPath, names[i])
        remoteEntryPath == Append(remotePath, names[i])
        r == IF w.local[localEntryPath] = "dir"
             THEN uploadDirectory(sftp, w, localEntryPath, remoteEntryPath, overwrite)
             ELSE uploadFile(sftp, w, localEntryPath, remoteEntryPath, overwrite) IN
    UploadEntries(sftp, r.w, localPath, remotePath, overwrite, names, i + 1,
       IF r.error # <<>> THEN Caught(result, remoteEntryPath, r.error)
       ELSE IF w.local[localEntryPath] = "dir" THEN Merged(result, r.result)
       ELSE Pushed(result, remoteEntryPath))

UploadEntries(sftp, w, localPath, remotePath, overwrite, names, i, result) ==
  IF i > Len(names) THEN [w |-> w, error |-> <<>>, result |-> result]
  ELSE
    LET localEntryPath == Append(localPath, names[i])
        remoteEntryPath == Append(remotePath, names[i])
        r == IF w.local[localEntryPath] = "dir"
             THEN uploadDirectory(sftp, w, localEntryPath, remoteEntryPath, overwrite)
             ELSE uploadFile(sftp, w, localEntryPath, remoteEntryPath, overwrite) IN
    UploadEntries(sftp, r.w, localPath, remotePath, overwrite, names, i + 1,
       IF r.error # <<>> THEN Caught(result, remoteEntryPath, r.error)
       ELSE IF w.local[localEntryPath] = "dir" THEN Merged(result, r.result)
       ELSE Pushed(result, remoteEntryPath))

uploadDirectory(sftp, w, localPath, remotePath, overwrite) ==
  LET m == mkdir(sftp, w, remotePath, TRUE) IN
  IF m.error # <<>> THEN [w |-> m.w, error |-> m.error, result |-> NoTransfer]
  ELSE IF m.w.local[localPath] # "dir"
  THEN [w |-> m.w, error |-> <<"readdirSync failed">>, result |-> NoTransfer]
  ELSE UploadEntries(sftp, m.w, localPath, remotePath, overwrite,
                     Listing(m.w.local, localPath), 1, NoTransfer)

\* downloadDirectory: mkdirSync of the local directory, the listing, then the
\* loop over its entries from the i-th on
RECURSIVE downloadDirectory(_, _, _, _, _)
RECURSIVE DownloadEntries(_, _, _, _, _, _, _, _)
DownloadEntries(sftp, w, remotePath, localPath, overwrite, entries, i, result) ==
  IF i > Len(entries) THEN [w |-> w, error |-> <<>>, result |-> result]
  ELSE
    LET remoteEntryPath == Append(remotePath, entries[i].filename)
        localEntryPath == Append(localPath, entries[i].filename)
        r == IF entries[i].info.isDirectory
             THEN downloadDirectory(sftp, w, remoteEntryPath, localEntryPath, overwrite)
             ELSE downloadFile(sftp, w, remoteEntryPath, localEntryPath, overwrite) IN
    DownloadEntries(sftp, r.w, remotePath, localPath, overwrite, entries, i + 1,
       IF r.error # <<>> THEN Caught(result, localEntryPath, r.error)
       ELSE IF entries[i].info.isDirectory THEN Merged(result, r.result)
       ELSE Pushed(result, localEntryPath))

downloadDirectory(sftp, w, remotePath, localPath, overwrite) ==
  LET d == IF existsSync(w, localPath) THEN [w |-> w, error |-> <<>>]
           ELSE mkdirSync(w, localPath) IN
  IF d.error # <<>> THEN [w |-> d.w, error |-> d.error, result |-> NoTransfer]
  ELSE
    LET listing == listDirectory(sftp, d.w, remotePath) IN
    IF listing.error # <<>>
    THEN [w |-> listing.w, error |-> listing.error, result |-> NoTransfer]
    ELSE DownloadEntries(sftp, listing.w, remotePath, localPath, overwrite,
                         listing.entries, 1, NoTransfer)

\* the paths strictly under p
Under(p) == {q \in Paths : Len(q) > Len(p) /\ SubSeq(q, 1, Len(p)) = p}
\* the path under `to` that corresponds to q under `from`
Moved(q, from, to) == to \o SubSeq(q, Len(from) + 1, Len(q))
\* A transfer is the first operation of a run: the two trees are any trees
\* of the bound.  The path of a file is not the root of a tree.
\* every entry of tree t under `from` has its place under `to`
Fits(t, from, to) ==
  \A q \in Under(from) : t[q] # "none" => Len(to) + Len(q) - Len(from) <= MaxDepth

UploadFile(localPath, remotePath, overwrite) ==
  /\ CanCall /\ fs.calls = 0
  /\ localPath # <<>> /\ remotePath # <<>>
  /\ Canonical(fs.local, localPath) /\ Canonical(fs.remote, remotePath)
  /\ \E faults \in MetFaults([f \in SUBSET Nat |->
          uploadFile(TRUE, World(f, "Failure"), localPath, remotePath, overwrite)]) :
       LET r == uploadFile(TRUE, World(faults, "Failure"), localPath, remotePath, overwrite) IN
       Called("uploadFile", localPath, remotePath, overwrite, TRUE, r, FALSE, NoTransfer)

DownloadFile(remotePath, localPath, overwrite) ==
  /\ CanCall /\ fs.calls = 0
  /\ localPath # <<>> /\ remotePath # <<>>
  /\ Canonical(fs.local, localPath) /\ Canonical(fs.remote, remotePath)
  /\ \E faults \in MetFaults([f \in SUBSET Nat |->
          downloadFile(TRUE, World(f, "Failure"), remotePath, localPath, overwrite)]) :
       LET r == downloadFile(TRUE, World(faults, "Failure"), remotePath, localPath, overwrite) IN
       Called("downloadFile", remotePath, localPath, overwrite, TRUE, r, FALSE, NoTransfer)

\* uploadFile without overwrite, step by step, for two calls c that run at
\* the same time.  Up to its first await: getSFTP, the check of the local
\* file, and the stat request of exists
UploadCall(c, localPath, remotePath) ==
  /\ fs.uploads[c].pc = "none" /\ \A d \in 1..(c - 1) : fs.uploads[d].pc # "none"
  /\ localPath # <<>> /\ remotePath # <<>>
  /\ Canonical(fs.local, localPath) /\ Canonical(fs.remote, remotePath)
  /\ fs' = [fs EXCEPT !.uploads[c] =
       IF ~existsSync(fs, localPath)
       THEN [pc |-> "failed", localPath |-> localPath, remotePath |-> remotePath,
             error |-> <<"Local file not found">>]
       ELSE [pc |-> "stat", localPath |-> localPath, remotePath |-> remotePath,
             error |-> <<>>]]
  /\ UNCHANGED <<sessions, obj, handles, pc, nextId, ops, shutdown, batch, sudo, last>>

\* the callback of sftp.stat: exists is settled, and uploadFile throws or
\* calls sftp.fastPut
UploadStatCallback(c) ==
  LET s == stat(TRUE, World({}, "Failure"), fs.uploads[c].remotePath) IN
  /\ fs.uploads[c].pc = "stat"
  /\ fs' = [fs EXCEPT !.uploads[c] =
       IF s.error = <<>>
       THEN [@ EXCEPT !.pc = "failed", !.error = <<"Remote file already exists">>]
       ELSE [@ EXCEPT !.pc = "put"]]
  /\ obj' = IF s.w.touched THEN Touch(1) ELSE obj
  /\ UNCHANGED <<sessions, handles, pc, nextId, ops, shutdown, batch, sudo, last>>

\* the callback of sftp.fastPut, when the transfer has been made or refused
UploadPutCallback(c) ==
  LET r == fastPut(World({}, "Failure"), fs.uploads[c].localPath,
                   fs.uploads[c].remotePath) IN
  /\ fs.uploads[c].pc = "put"
  /\ fs' = [fs EXCEPT
       !.remote = r.w.remote,
       !.uploads[c] =
          IF r.err # "none"
          THEN [@ EXCEPT !.pc = "failed", !.error = <<"Failed to upload file", r.err>>]
          ELSE [@ EXCEPT !.pc = "done"]]
  /\ obj' = IF r.err = "none" THEN Touch(1) ELSE obj
  /\ UNCHANGED <<sessions, handles, pc, nextId, ops, shutdown, batch, sudo, last>>

\* the directories a directory transfer is called with: the root of a tree
\* or an entry of the root
Roots == {p \in Paths : Len(p) <= 1}
\* the message of the faults makes a difference to mkdir only
Told(w, message) ==
  message = "Failure" \/ \E i \in w.faults : i <= Len(w.log) /\ w.log[i].req = "mkdir"

UploadDirectory(localPath, remotePath, overwrite, message) ==
  /\ CanCall /\ fs.calls = 0
  /\ Canonical(fs.local, localPath) /\ Canonical(fs.remote, remotePath)
  /\ Fits(fs.local, localPath, remotePath)
  /\ \E faults \in MetFaults([f \in SUBSET Nat |->
          uploadDirectory(TRUE, World(f, message), localPath, remotePath, overwrite)]) :
       LET r == uploadDirectory(TRUE, World(faults, message), localPath, remotePath, overwrite) IN
       /\ Told(r.w, message)
       /\ Called("uploadDirectory", localPath, remotePath, overwrite, TRUE, r, FALSE, r.result)

DownloadDirectory(remotePath, localPath, overwrite) ==
  /\ CanCall /\ fs.calls = 0
  /\ Canonical(fs.local, localPath) /\ Canonical(fs.remote, remotePath)
  /\ Fits(fs.remote, remotePath, localPath)
  /\ \E faults \in MetFaults([f \in SUBSET Nat |->
          downloadDirectory(TRUE, World(f, "Failure"), remotePath, localPath, overwrite)]) :
       LET r == downloadDirectory(TRUE, World(faults, "Failure"), remotePath, localPath, overwrite) IN
       Called("downloadDirectory", remotePath, localPath, overwrite, TRUE, r, FALSE, r.result)

\* The trees as the first operation finds them: entries made on the server
\* by anyone, and on the local disk.
RemoteEntry(p, v) ==
  /\ fs.calls = 0 /\ fs.made < MaxDepth
  /\ p # <<>> /\ fs.remote[p] = "none" /\ fs.remote[Dirname(p)] = "dir"
  /\ FirstFree(fs.remote, p)
  /\ fs' = [fs EXCEPT !.remote[p] = v, !.made = @ + 1]
  /\ UNCHANGED <<sessions, obj, handles, pc, nextId, ops, shutdown, batch, sudo, last>>

LocalEntry(p, v) ==
  /\ fs.calls = 0 /\ fs.made < MaxDepth
  /\ p # <<>> /\ fs.local[p] = "none" /\ fs.local[Dirname(p)] = "dir"
  /\ FirstFree(fs.local, p)
  /\ fs' = [fs EXCEPT !.local[p] = v, !.made = @ + 1]
  /\ UNCHANGED <<sessions, obj, handles, pc, nextId, ops, shutdown, batch, sudo, last>>

\* ------------------------------------------------------------ time
\* idleFor is read by the sweep only, and only for registered sessions; it is
\* advanced for the sessions that are registered or may still become so
Watched(id) == id \in Registered \/ pc[id] \in {"connecting", "initSFTP"}

Tick ==
  /\ obj' = [id \in Ids |-> IF Watched(id)
                            THEN [obj[id] EXCEPT !.idleFor = Sat(@, sessionTimeout + 1)]
                            ELSE obj[id]]
  /\ ops' = [o \in Ops |-> IF ops[o].timer
                           THEN [ops[o] EXCEPT !.elapsed = Sat(@, ops[o].timeout)]
                           ELSE ops[o]]
  /\ last' = Event("tick", "ok", NoId, {})
  /\ UNCHANGED <<sessions, handles, pc, nextId, shutdown, batch, sudo, fs>>

Sweep ==
  \E faults \in [{id \in Registered : Expired(obj[id])} -> Faults] :
     cleanupExpiredSessions(faults)

\* --------------------------------------------- the session registry
Next ==
  \/ \E credentials \in SSHCredentials, hasAuth \in BOOLEAN :
        CreateSession(credentials, hasAuth)
  \/ \E id \in Ids : ConnectReady(id)
  \/ \E id \in Ids : ConnectError(id)
  \/ \E id \in Ids : ConnectTimeout(id)
  \/ \E id \in Ids : SftpReady(id)
  \/ \E id \in Ids : SftpError(id)
  \/ \E sid \in Ids : GetSession(sid)
  \/ \E sid \in Ids, fault \in Faults : closeSession(sid, fault)
  \/ Sweep
  \/ Tick

Spec == Init /\ [][Next]_vars

\* The registry with every caller connecting to the same target, for the
\* liveness of the sweep: the clock advances and the setInterval callback
\* keeps firing.
LiveCredentials == {c \in SSHCredentials : c.port = DefaultPort}

LiveNext ==
  \/ \E credentials \in LiveCredentials, hasAuth \in BOOLEAN :
        CreateSession(credentials, hasAuth)
  \/ \E id \in Ids : ConnectReady(id)
  \/ \E id \in Ids : ConnectError(id)
  \/ \E id \in Ids : ConnectTimeout(id)
  \/ \E id \in Ids : SftpReady(id)
  \/ \E id \in Ids : SftpError(id)
  \/ \E sid \in Ids : GetSession(sid)
  \/ \E sid \in Ids, fault \in Faults : closeSession(sid, fault)
  \/ Sweep
  \/ Tick

LiveSpec == Init /\ [][LiveNext]_vars /\ WF_vars(Tick) /\ WF_vars(Sweep)

\* The registry with connections that can be lost once they are established.
TransportNext ==
  \/ \E credentials \in LiveCredentials, hasAuth \in BOOLEAN :
        CreateSession(credentials, hasAuth)
  \/ \E id \in Ids : ConnectReady(id)
  \/ \E id \in Ids : ConnectError(id)
  \/ \E id \in Ids : ConnectTimeout(id)
  \/ \E id \in Ids : SftpReady(id)
  \/ \E id \in Ids : SftpError(id)
  \/ \E id \in Ids : ClientError(id)
  \/ \E sid \in Ids : GetSession(sid)
  \/ \E sid \in Ids, fault \in Faults : closeSession(sid, fault)

TransportSpec == Init /\ [][TransportNext]_vars

\* The whole SessionManager with every caller connecting to the same target.
\* The awaits of closeAllSessions wait for promises that are already settled
\* (closeSession has no await): the loop resumes before any timer, socket or
\* request callback runs, so only the steps of shutdown() interleave with it.
\* Once the process has exited nothing runs.
Serving == shutdown.pc \in {"idle", "resolved", "rejected"}

ManagerNext ==
  \/ \E credentials \in LiveCredentials, hasAuth \in BOOLEAN :
        Serving /\ CreateSession(credentials, hasAuth)
  \/ \E id \in Ids : Serving /\ ConnectReady(id)
  \/ \E id \in Ids : Serving /\ ConnectError(id)
  \/ \E id \in Ids : Serving /\ ConnectTimeout(id)
  \/ \E id \in Ids : Serving /\ SftpReady(id)
  \/ \E id \in Ids : Serving /\ SftpError(id)
  \/ \E sid \in Ids : Serving /\ GetSession(sid)
  \/ \E sid \in Ids, fault \in Faults : Serving /\ closeSession(sid, fault)
  \/ Serving /\ ListSessions
  \/ Serving /\ shutdown.cleanupInterval /\ Sweep
  \/ Serving /\ Tick
  \/ \E fault \in Faults : Destroy(fault)
  \/ \E fault \in Faults : CloseAllStep(fault)
  \/ ProcessExit

ManagerSpec == Init /\ [][ManagerNext]_vars

\* createSession calls whose readyTimeout timer fires when it is due; nothing
\* makes the transport call back
CreateSpec ==
  Init /\ [][TransportNext]_vars /\ \A id \in Ids : WF_vars(ConnectTimeout(id))

\* ------------------------- the executor on one established session
\* the state in which the first createSession has just returned id 1
ExecInit ==
  /\ sessions = <<1>>
  /\ \E credentials \in SSHCredentials :
       obj = [i \in Ids |-> IF i = 1
                THEN [NoSession EXCEPT !.credentials = credentials,
                                       !.sftp = TRUE, !.isConnected = TRUE]
                ELSE NoSession]
  /\ handles = [i \in Ids |-> [clientEnd |-> 0, sftpEnd |-> 0, lost |-> FALSE]]
  /\ pc = [i \in Ids |-> IF i = 1 THEN "returned" ELSE "free"]
  /\ nextId = 2
  /\ ops = [o \in Ops |-> NoOp]
  /\ shutdown = NoShutdown
  /\ batch = NoSeq /\ sudo = NoSudo /\ fs = NoFs
  /\ last = Event("sftpReady", "ok", 1, {})

ExecNext ==
  \/ \E o \in Ops, sid \in Ids, timeout \in CmdTimeouts : ExecCommand(o, sid, timeout)
  \/ \E o \in Ops, err \in BOOLEAN : ExecCallback(o, err)
  \/ \E o \in Ops : StreamClose(o, 0, NoSignal)
  \/ \E o \in Ops : StreamError(o)
  \/ \E o \in Ops : ExecTimeout(o)
  \/ \E sid \in Ids : GetSession(sid)
  \/ \E sid \in Ids, fault \in Faults : closeSession(sid, fault)
  \/ Sweep
  \/ Tick

ExecSpec == ExecInit /\ [][ExecNext]_vars

\* The executions alone, for their termination: the clock advances and a
\* setTimeout callback whose delay has passed is run by the event loop.
\* Nothing is assumed of the transport: the exec callback, 'close' and
\* 'error' may never come.
ExecLiveNext ==
  \/ \E o \in Ops, sid \in Ids, timeout \in CmdTimeouts : ExecCommand(o, sid, timeout)
  \/ \E o \in Ops, err \in BOOLEAN : ExecCallback(o, err)
  \/ \E o \in Ops : StreamClose(o, 0, NoSignal)
  \/ \E o \in Ops : StreamError(o)
  \/ \E o \in Ops : ExecTimeout(o)
  \/ Tick

ExecLiveSpec ==
  /\ ExecInit /\ [][ExecLiveNext]_vars
  /\ WF_vars(Tick)
  /\ \A o \in Ops : WF_vars(ExecTimeout(o))

\* One execution with its output: the data events and every exit event.
OutputNext ==
  \/ \E timeout \in CmdTimeouts : ExecCommand(1, 1, timeout)
  \/ \E err \in BOOLEAN : ExecCallback(1, err)
  \/ \E data \in Chunks : StreamData(1, data)
  \/ \E data \in Chunks : StderrData(1, data)
  \/ \E e \in ExitEvents : StreamClose(1, e.code, e.signal)
  \/ StreamError(1)
  \/ ExecTimeout(1)
  \/ Tick

OutputSpec == ExecInit /\ [][OutputNext]_vars

\* One executeCommands call on the established session.
BatchNext ==
  \/ \E n \in 0..MaxSeqLen, stopOnError \in BOOLEAN : executeCommands(1, n, stopOnError)
  \/ \E j \in 1..MaxSeqLen, err \in BOOLEAN : BatchExecCallback(j, err)
  \/ \E j \in 1..MaxSeqLen, e \in ExitEvents : BatchStreamClose(j, e.code, e.signal)
  \/ \E j \in 1..MaxSeqLen : BatchStreamError(j)
  \/ \E j \in 1..MaxSeqLen : BatchExecTimeout(j)

BatchSpec == ExecInit /\ [][BatchNext]_vars

\* The conversion of the entries a transport returns into FileInfo.
ModeNext ==
  \/ \E mode \in ModeWords : Classify(mode, "attrsToFileInfo")
  \/ \E mode \in ModeWords : Classify(mode, "statsToFileInfo")
ModeSpec == ExecInit /\ [][ModeNext]_vars

\* The SFTP operations do not look at the credentials of the session: one
\* established session stands for all.
SftpInit == ExecInit /\ obj[1].credentials = CHOOSE c \in SSHCredentials : TRUE

\* exists on any remote tree
ExistsNext ==
  \/ \E p \in Paths, v \in {"dir", "old"} : RemoteEntry(p, v)
  \/ \E p \in Paths, sftp \in BOOLEAN : Exists(p, sftp)
ExistsSpec == SftpInit /\ [][ExistsNext]_vars

\* mkdir calls on any remote tree, one after the other
MkdirNext ==
  \/ \E p \in Paths, v \in {"dir", "old"} : RemoteEntry(p, v)
  \/ \E p \in Paths, recursive \in BOOLEAN, message \in FaultMessages :
       Mkdir(p, recursive, message)
MkdirSpec == SftpInit /\ [][MkdirNext]_vars

\* remove calls on any remote tree, one after the other
RemoveNext ==
  \/ \E p \in Paths, v \in {"dir", "old"} : RemoteEntry(p, v)
  \/ \E p \in Paths, recursive \in BOOLEAN : RemovePath(p, recursive)
RemoveSpec == SftpInit /\ [][RemoveNext]_vars

\* file transfers between any two trees
FileTransferNext ==
  \/ \E p \in Paths, v \in {"dir", "old"} : RemoteEntry(p, v)
  \/ \E p \in Paths, v \in {"dir", "new"} : LocalEntry(p, v)
  \/ \E localPath, remotePath \in Paths, overwrite \in BOOLEAN :
       UploadFile(localPath, remotePath, overwrite)
  \/ \E remotePath, localPath \in Paths, overwrite \in BOOLEAN :
       DownloadFile(remotePath, localPath, overwrite)
FileTransferSpec == SftpInit /\ [][FileTransferNext]_vars

\* directory transfers between any two trees
TransferNext ==
  \/ \E p \in Paths, v \in {"dir", "old"} : RemoteEntry(p, v)
  \/ \E p \in Paths, v \in {"dir", "new"} : LocalEntry(p, v)
  \/ \E localPath, remotePath \in Roots, overwrite \in BOOLEAN, message \in FaultMessages :
       UploadDirectory(localPath, remotePath, overwrite, message)
  \/ \E remotePath, localPath \in Roots, overwrite \in BOOLEAN :
       DownloadDirectory(remotePath, localPath, overwrite)
TransferSpec == SftpInit /\ [][TransferNext]_vars

\* the single-entry operations on a session that has been idle for a tick
\* when they are called; a file is transferred to the path it has on the
\* other side
ActivityNext ==
  \/ fs.made = 0 /\ fs.calls = 0 /\ obj[1].idleFor = 0 /\ Tick
  \/ \E p \in Paths, v \in {"dir", "old"} : RemoteEntry(p, v)
  \/ \E p \in Paths, v \in {"dir", "new"} : LocalEntry(p, v)
  \/ \E op \in {"stat", "listDirectory", "unlink", "rmdir"}, p \in Paths : SingleEntry(op, p)
  \/ \E p \in Paths, recursive \in BOOLEAN : Mkdir(p, recursive, "Permission denied")
  \/ \E p \in Paths, overwrite \in BOOLEAN : UploadFile(p, p, overwrite)
  \/ \E p \in Paths, overwrite \in BOOLEAN : DownloadFile(p, p, overwrite)
ActivitySpec == SftpInit /\ [][ActivityNext]_vars

\* two uploadFile calls without overwrite at the same time, on any local tree
\* and an empty remote tree, to a path in the remote root
UploadRaceNext ==
  \/ \E p \in Paths, v \in {"dir"} \cup Contents :
       (\A c \in {1, 2} : fs.uploads[c].pc = "none") /\ LocalEntry(p, v)
  \/ \E c \in {1, 2}, localPath \in Paths, remotePath \in Roots :
       UploadCall(c, localPath, remotePath)
  \/ \E c \in {1, 2} : UploadStatCallback(c)
  \/ \E c \in {1, 2} : UploadPutCallback(c)
UploadRaceSpec == SftpInit /\ [][UploadRaceNext]_vars

\* One executeSudoCommand call on the established session.
SudoNext ==
  \/ \E sudoPassword \in Passwords \cup {NoPassword} : executeSudoCommand(1, sudoPassword)
  \/ \E err \in BOOLEAN : SudoExecCallback(err)
  \/ \E text \in SudoChunks \cup Echo : SudoData(text)
  \/ \E text \in SudoChunks : SudoStderrData(text)
  \/ \E e \in ExitEvents : SudoStreamClose(e.code, e.signal)
  \/ SudoStreamError
  \/ SudoTimeout

SudoSpec == ExecInit /\ [][SudoNext]_vars

TypeOK ==
  /\ Registered \subseteq Ids
  /\ nextId \in 1..(MaxIds + 1)
  /\ \A id \in Ids : pc[id] \in {"free", "connecting", "initSFTP", "returned", "failed"}
  /\ \A id \in Ids : obj[id].commandCount \in 0..(MaxCommands + MaxSeqLen)

\* ============================================================ claims

\* the target identity of a request or a session: host, normalized port, user
Target(credentials) ==
  <<credentials.host, NormPort(credentials.port), credentials.username>>

\* the registered, connected sessions whose target identity is that of c
SameTarget(c) ==
  {s \in Registered : obj[s].isConnected /\ Target(obj[s].credentials) = Target(c)}

\* the registered, connected sessions created with exactly the credentials c
SameCredentials(c) ==
  {s \in Registered : obj[s].isConnected /\ obj[s].credentials = c}

\* C1: the registry never holds more sessions than the configured ceiling,
\* in any interleaving of createSession calls, closes and sweeps.
CeilingNeverExceeded == Len(sessions) <= maxSessions

\* C2: at most one registered session exists for each (host, port, username).
OneSessionPerTriple ==
  \A i, j \in 1..Len(sessions) :
     i # j => obj[sessions[i]].credentials # obj[sessions[j]].credentials

\* C3: a createSession call with the credentials of a session that an earlier
\* call returned and that is still registered and connected returns that
\* session's id, constructs no second client and does not grow the registry.
SecondCallReuses ==
  [][\A c \in SSHCredentials, hasAuth \in BOOLEAN :
       CreateSession(c, hasAuth) =>
         \A s \in SameCredentials(c) :
            /\ last'.result = "ok" /\ last'.ret = s
            /\ nextId' = nextId
            /\ Len(sessions') = Len(sessions)]_vars

\* C4: a request whose port is omitted or 22 resolves to a registered,
\* connected session of the same host and user whose port was omitted or 22.
OmittedPortIsDefaultPort ==
  [][\A c \in SSHCredentials, hasAuth \in BOOLEAN :
       (/\ CreateSession(c, hasAuth)
        /\ NormPort(c.port) = DefaultPort
        /\ SameTarget(c) # {})
       => /\ last'.result = "ok" /\ last'.ret \in SameTarget(c)
          /\ nextId' = nextId]_vars

\* C5: a createSession call for a target no registered session has, made
\* when the registry holds the ceiling number of sessions, fails with the
\* limit error, constructs no client and leaves the registry as it was.
CeilingRejectsNewTarget ==
  [][\A c \in SSHCredentials, hasAuth \in BOOLEAN :
       (/\ CreateSession(c, hasAuth)
        /\ Len(sessions) >= maxSessions
        /\ \A s \in Registered : Target(obj[s].credentials) # Target(c))
       => /\ last'.result = "LimitReached"
          /\ nextId' = nextId
          /\ UNCHANGED <<sessions, obj, handles, pc>>]_vars

C5Witness ==
  /\ last.op = "createSession" /\ last.result = "LimitReached"
  /\ Len(sessions) = maxSessions
  /\ nextId <= MaxIds

\* C6: when connecting or opening the SFTP handle fails, the call fails, its
\* client has been ended by then, no step of the call touches the registry
\* and its session is never registered.
FailedCreateReleasesAndRegistersNothing ==
  [][\A id \in Ids :
       /\ (pc'[id] # pc[id] /\ pc'[id] # "returned") => sessions' = sessions
       /\ (pc[id] # "failed" /\ pc'[id] = "failed")
            => /\ last'.result = "error"
               /\ handles'[id].clientEnd > handles[id].clientEnd
       /\ pc'[id] = "failed" => id \notin {sessions'[i] : i \in 1..Len(sessions')}]_vars

C6Witness ==
  /\ last.op = "sftpError"
  /\ \E id \in Ids : pc[id] = "failed" /\ handles[id].clientEnd = 1
  /\ Len(sessions) = 1

\* C7: a sweep removes every session whose idle time exceeds the timeout,
\* whichever closes fail, and a get on an unregistered id gives not-found.
SweepRemovesEveryExpired ==
  [][/\ last'.op = "sweep" =>
          \A s \in Registered :
             obj[s].idleFor > sessionTimeout
               => s \notin {sessions'[i] : i \in 1..Len(sessions')}
     /\ \A sid \in Ids :
          (GetSession(sid) /\ sid \notin Registered) => last'.result = "NotFound"]_vars

C7Witness ==
  /\ last.op = "sweep"
  /\ \E s1, s2 \in last.ids :
       /\ s1 # s2
       /\ obj[s1].isConnected /\ handles[s1].clientEnd = 0
       /\ ~obj[s2].isConnected
       /\ s1 \notin Registered /\ s2 \notin Registered

\* C8: every session is refreshed again and again (by a getSession or a
\* reusing createSession) or is, from some moment on, out of the registry:
\* a registered session that is left alone is eventually reclaimed.
Refreshed(s) ==
  \/ GetSession(s) /\ GetResult(s) = "ok"
  \/ \E c \in SSHCredentials, hasAuth \in BOOLEAN :
       /\ CreateSession(c, hasAuth)
       /\ last'.result = "ok" /\ last'.ret = s

IdleSessionEventuallyReclaimed ==
  \A s \in Ids :
     []<><<Refreshed(s)>>_vars \/ <>[](s \notin Registered)

C8Witness ==
  /\ last.op = "sweep" /\ last.ids # {}
  /\ Registered = {}
  /\ \A s \in last.ids : ~obj[s].isConnected /\ handles[s].clientEnd = 1

\* C9: the sweep never removes a session on which a command is in flight
\* (started through getSession, not yet settled, its timeout not yet due).
SweepSparesSessionInUse ==
  [][\A o \in Ops :
       (/\ ops[o].pc = "pending" /\ ops[o].elapsed < ops[o].timeout
        /\ ops[o].sid \in Registered
        /\ last'.op = "sweep")
       => ops[o].sid \in {sessions'[i] : i \in 1..Len(sessions')}]_vars

\* C10: closeSession on a registered session ends the client, marks the
\* session disconnected, removes it and returns normally, also when
\* sftp.end() throws.
CloseReleasesEverything ==
  [][\A sid \in Ids, fault \in {"none", "sftp"} :
       (closeSession(sid, fault) /\ sid \in Registered)
       => /\ last'.result = "ok"
          /\ sid \notin {sessions'[i] : i \in 1..Len(sessions')}
          /\ handles'[sid].clientEnd = handles[sid].clientEnd + 1
          /\ ~obj'[sid].isConnected]_vars

\* C11: for every session that was ever registered, client.end() is invoked
\* exactly once over the run: never twice, and once the session has left the
\* registry (by closeSession, closeAllSessions or the sweep), not zero times.
ClientEndedExactlyOnce ==
  \A s \in Ids :
     pc[s] = "returned" =>
        /\ handles[s].clientEnd <= 1
        /\ s \notin Registered => handles[s].clientEnd = 1

\* C12: for every session createSession has returned, also after it was
\* closed, session.sftp is non-null exactly when session.isConnected is true.
SftpHandleIffConnected ==
  \A s \in Ids : pc[s] = "returned" => (obj[s].sftp <=> obj[s].isConnected)

\* C13: getSession fails with the not-found error on an unregistered id and
\* with the not-connected error on a registered session whose isConnected is
\* false, changing no state; otherwise it returns the session, resets that
\* session's idle time and changes nothing else.
GetFailsOrRefreshes ==
  [][\A sid \in Ids :
       GetSession(sid) =>
         /\ sid \notin Registered =>
              /\ last'.result = "NotFound"
              /\ UNCHANGED <<sessions, obj, handles, pc, nextId, ops, shutdown>>
         /\ (sid \in Registered /\ ~obj[sid].isConnected) =>
              /\ last'.result = "NotConnected"
              /\ UNCHANGED <<sessions, obj, handles, pc, nextId, ops, shutdown>>
         /\ (sid \in Registered /\ obj[sid].isConnected) =>
              /\ last'.result = "ok"
              /\ obj'[sid] = [obj[sid] EXCEPT !.idleFor = 0]
              /\ \A other \in Ids \ {sid} : obj'[other] = obj[other]
              /\ UNCHANGED <<sessions, handles, pc, nextId, ops, shutdown>>]_vars

C13Witness ==
  /\ last.op = "getSession" /\ last.result = "ok"
  /\ \E s1, s2 \in Registered :
       /\ s1 # s2
       /\ obj[s1].idleFor = 0
       /\ obj[s2].idleFor > 0

\* the ids of the summaries listSessions returns
Listed == {listSessions[i].sessionId : i \in 1..Len(listSessions)}

\* C14: closeSession on an id that is not registered (never issued, or already
\* closed by closeSession, closeAllSessions or the sweep) fails with the
\* not-found error and changes nothing; after a closeSession that returned,
\* getSession on that id fails with not-found and listSessions does not
\* contain it, and a session that left the registry stays out of it.
CloseUnknownFailsAndClosedIsGone ==
  [][/\ \A sid \in Ids, fault \in Faults :
          closeSession(sid, fault) =>
            /\ sid \notin Registered =>
                 /\ last'.result = "NotFound"
                 /\ UNCHANGED <<sessions, obj, handles, pc, nextId, ops, shutdown>>
            /\ sid \in Registered =>
                 /\ last'.result = "ok"
                 /\ GetResult(sid)' = "NotFound"
                 /\ sid \notin Listed'
     /\ \A s \in Ids :
          (pc[s] = "returned" /\ s \notin Registered) =>
             /\ GetResult(s)' = "NotFound"
             /\ s \notin Listed']_vars

C14Witness ==
  /\ last.op = "closeSession" /\ last.result = "NotFound"
  /\ shutdown.pc = "resolved" /\ Len(shutdown.sessionIds) > 1
  /\ \A s \in Ids : pc[s] = "returned" /\ s \notin Registered

ListIsExactAndChangesNothing ==
  [][ListSessions =>
       /\ \A s \in Ids :
            Cardinality({i \in 1..Len(listSessions) : listSessions[i].sessionId = s})
              = IF s \in Registered /\ obj[s].isConnected THEN 1 ELSE 0
       /\ last'.ids = {s \in Registered : obj[s].isConnected}
       /\ UNCHANGED <<sessions, obj, handles, pc, nextId, ops, shutdown>>]_vars

C16Witness ==
  /\ last.op = "listSessions"
  /\ \E s1, s2 \in Ids :
       /\ s1 \in last.ids /\ s1 \in Registered /\ obj[s1].idleFor > 0
       /\ s2 \notin last.ids /\ pc[s2] = "returned" /\ s2 \notin Registered

\* C17: every execution settles: while its promise is pending its timer is
\* armed, the timer firing on a pending promise rejects it with the timeout
\* error, and a pending promise is eventually settled whatever the transport
\* does (also when the exec callback is never invoked).
Pending(o) == ops[o].pc = "pending"

EveryExecutionSettles ==
  /\ [](\A o \in Ops : Pending(o) => ops[o].timer)
  /\ [][\A o \in Ops :
          (ExecTimeout(o) /\ Pending(o)) =>
             /\ ops'[o].pc = "rejected"
             /\ ops'[o].result.error = "timeout"]_vars
  /\ \A o \in Ops : Pending(o) ~> ~Pending(o)

C17Witness ==
  \E o \in Ops :
     /\ last.op = "execTimeout"
     /\ ops[o].pc = "rejected" /\ ops[o].result.error = "timeout"
     /\ ops[o].stream = "opening"

\* C18: an execution has one outcome, that of the first of stream close,
\* stream error, exec-open error and timeout to occur; once the promise is
\* settled no later event changes what its caller observes.
Settled(o) == ops[o].pc \in {"resolved", "rejected"}

OutcomeDecidedOnce ==
  [][\A o \in Ops :
       /\ Pending(o) =>
            /\ \A e \in ExitEvents :
                 StreamClose(o, e.code, e.signal) =>
                    /\ ops'[o].pc = "resolved"
                    /\ ops'[o].result.error = "none"
            /\ StreamError(o) =>
                 ops'[o].pc = "rejected" /\ ops'[o].result.error = "stream"
            /\ ExecCallback(o, TRUE) =>
                 ops'[o].pc = "rejected" /\ ops'[o].result.error = "exec"
            /\ ExecTimeout(o) =>
                 ops'[o].pc = "rejected" /\ ops'[o].result.error = "timeout"
       /\ (Settled(o) /\ last'.op # "exec") =>
            /\ ops'[o].pc = ops[o].pc
            /\ ops'[o].result = ops[o].result]_vars

C18Witness ==
  \E o \in Ops :
     /\ last.op = "streamClose"
     /\ ops[o].stream = "closed"
     /\ ops[o].pc = "rejected" /\ ops[o].result.error = "timeout"

\* the concatenation, in arrival order, of the chunks that arrived on fd
RECURSIVE Received(_, _)
Received(arrived, fd) ==
  IF arrived = <<>> THEN <<>>
  ELSE (IF Head(arrived).fd = fd THEN Head(arrived).data ELSE <<>>)
         \o Received(Tail(arrived), fd)

\* t is raw without its leading and trailing whitespace
IsTrimOf(t, raw) ==
  /\ t # <<>> => (t[1] # " " /\ t[Len(t)] # " ")
  /\ \E i \in 0..Len(raw) :
       /\ i + Len(t) <= Len(raw)
       /\ \A k \in 1..Len(raw) :
            raw[k] = IF k > i /\ k <= i + Len(t) THEN t[k - i] ELSE " "

\* C19: when the stream closes while the promise is pending (before the
\* timeout and before any error), the promise resolves with the exit code and
\* signal of the close event, the trimmed concatenation in arrival order of
\* the stdout chunks and, separately, of the stderr chunks; the session's
\* commandCount grows by exactly 1 and its idle time is reset.
CloseResolvesWithOutput ==
  [][\A e \in ExitEvents :
       (StreamClose(1, e.code, e.signal) /\ Pending(1)) =>
          /\ ops'[1].pc = "resolved"
          /\ ops'[1].result.error = "none"
          /\ ops'[1].result.exitCode = e.code
          /\ ops'[1].result.signal = e.signal
          /\ IsTrimOf(ops'[1].result.stdout, Received(ops[1].arrived, "stdout"))
          /\ IsTrimOf(ops'[1].result.stderr, Received(ops[1].arrived, "stderr"))
          /\ obj'[ops[1].sid].commandCount = obj[ops[1].sid].commandCount + 1
          /\ obj'[ops[1].sid].idleFor = 0
          /\ \A id \in Ids \ {ops[1].sid} : obj'[id] = obj[id]]_vars

C19Witness ==
  /\ last.op = "streamClose"
  /\ ops[1].pc = "resolved"
  /\ ops[1].result.exitCode = 1
  /\ ops[1].result.stdout = <<"b", " ", " ", "a">>
  /\ ops[1].result.stderr = <<>>
  /\ obj[1].commandCount = 1

\* C20: an exec-open error or a stream error that comes while the promise is
\* pending rejects it at once with that error and cancels the timer; the
\* caller of that execution never gets the timeout error afterwards.
TransportErrorFailsAtOnce ==
  [][\A o \in Ops :
       /\ (ExecCallback(o, TRUE) /\ Pending(o)) =>
            /\ ops'[o].pc = "rejected" /\ ops'[o].result.error = "exec"
            /\ ~ops'[o].timer
       /\ (StreamError(o) /\ Pending(o)) =>
            /\ ops'[o].pc = "rejected" /\ ops'[o].result.error = "stream"
            /\ ~ops'[o].timer
       /\ (ops[o].result.error \in {"exec", "stream"} /\ last'.op # "exec") =>
            /\ ops'[o].result = ops[o].result
            /\ ~ops'[o].timer]_vars

C20Witness ==
  \E o \in Ops :
     /\ last.op = "tick"
     /\ ops[o].pc = "rejected" /\ ops[o].result.error = "stream"
     /\ ~ops[o].timer /\ ops[o].elapsed < ops[o].timeout

\* the executions of the batch whose stream is requested or open: not yet
\* refused by the exec callback, closed or failed with an 'error'
OpenStreams == {j \in 1..MaxSeqLen : batch.run[j].stream \in {"opening", "open"}}

\* C21: executeCommands runs its commands with no overlap: the stream of
\* command k+1 is opened only after that of command k has closed or failed,
\* so at most one stream of the batch is open at any time.
OneStreamAtATime == Cardinality(OpenStreams) <= 1

\* how execution j ended, as executeCommands has to report it
Failed(j) == batch.run[j].result.error # "none"

Reported(j) ==
  IF Failed(j)
  THEN [error |-> "none", stdout |-> <<>>, stderr |-> <<batch.run[j].result.error>>,
        exitCode |-> 0 - 1, signal |-> NoSignal]
  ELSE batch.run[j].result

\* the commands at which a stopOnError batch has to stop
Stopping ==
  {j \in 1..batch.n :
     batch.stopOnError /\ (Failed(j) \/ batch.run[j].result.exitCode # 0)}

LastIssued ==
  IF Stopping = {} THEN batch.n
  ELSE CHOOSE j \in Stopping : \A i \in Stopping : j <= i

\* C22: executeCommands always returns (a failed execution is an entry, not
\* an exception): without stopOnError one entry per command in command
\* order; with stopOnError the entries up to and including the first command
\* that failed or exited non-zero, no later command being issued; a failed
\* execution is reported with exit code -1, empty stdout, the message as
\* stderr and a null signal.
SequenceResultIsExact ==
  /\ batch.pc \in {"idle", "awaiting", "returned"}
  /\ batch.pc = "awaiting" =>
       /\ batch.k \in 1..batch.n /\ Len(batch.results) = batch.k - 1
       /\ \A j \in 1..Len(batch.results) : batch.results[j] = Reported(j)
       /\ \A j \in 1..Len(batch.results) : j \notin Stopping
  /\ batch.pc = "returned" =>
       /\ Len(batch.results) = LastIssued
       /\ \A j \in 1..LastIssued : batch.results[j] = Reported(j)
       /\ \A j \in (LastIssued + 1)..MaxSeqLen : batch.run[j].pc = "none"

C22Witness ==
  /\ batch.pc = "returned" /\ batch.stopOnError /\ batch.n = 2
  /\ Len(batch.results) = 1
  /\ batch.results[1].exitCode = 0 - 1
  /\ batch.results[1].stderr = <<"timeout">>
  /\ batch.run[2].pc = "none"

\* the pieces of a text
Pieces(text) == {text[i] : i \in 1..Len(text)}

\* C23: whatever the remote end sends (the echo of what was written to the
\* stream included), the CommandResult of an executeSudoCommand call made
\* with a password has the password neither in stdout nor in stderr.
PasswordNeverReturned ==
  (sudo.pc = "resolved" /\ sudo.sudoPassword # NoPassword) =>
     sudo.sudoPassword \notin Pieces(sudo.result.stdout) \cup Pieces(sudo.result.stderr)

\* C30: for every mode word of a listing entry or stat result, the flags
\* isDirectory, isFile and isSymbolicLink of the FileInfo are mutually
\* exclusive and exactly one of them is true, also when the mode is absent
\* or the type is none of the three.
FlagsOf(info) ==
  {f \in {"isDirectory", "isFile", "isSymbolicLink"} : info[f]}
Converted == fs.call.op \in {"attrsToFileInfo", "statsToFileInfo"}
ExactlyOneFlag == Converted => Cardinality(FlagsOf(fs.call.info)) = 1

\* C30 as amended: the flags are mutually exclusive, and one of them is true
\* exactly when the type field of the mode is that of a directory, a regular
\* file or a symbolic link; for an absent mode and for every other type all
\* three are false.
TypeField(mode) == IF mode = NoMode THEN 0 ELSE (mode \div 4096) % 16
AtMostOneFlag ==
  Converted =>
    /\ Cardinality(FlagsOf(fs.call.info)) <= 1
    /\ fs.call.info.isDirectory <=> TypeField(fs.call.mode) = 4
    /\ fs.call.info.isFile <=> TypeField(fs.call.mode) = 8
    /\ fs.call.info.isSymbolicLink <=> TypeField(fs.call.mode) = 10
C30Witness ==
  /\ fs.call.op = "attrsToFileInfo"
  /\ fs.call.mode = NoMode
  /\ FlagsOf(fs.call.info) = {}

\* C29: exists(path) never raises: it returns true exactly when the stat
\* request succeeds, and false when the path is missing, when the transport
\* fails the request and when the session has no SFTP handle.
StatSucceeded ==
  /\ fs.call.sftp
  /\ fs.call.faults = {}
  /\ fs.remote[fs.call.path] # "none"
ExistsNeverRaises ==
  fs.call.op = "exists" =>
    /\ fs.call.ok
    /\ fs.call.value <=> StatSucceeded
C29Witness ==
  /\ fs.call.op = "exists"
  /\ fs.call.faults # {}
  /\ fs.remote[fs.call.path] # "none"
  /\ ~fs.call.value

\* the step is a call of the operation op that met no transport fault
CleanCall(op) ==
  /\ fs'.calls = fs.calls + 1
  /\ fs'.call.op = op
  /\ fs'.call.faults = {}
\* the request that removed q, if any, comes before position i of the log
RemovedBefore(log, q, i) ==
  \E j \in 1..(i - 1) :
     log[j].path = q /\ log[j].req \in {"unlink", "rmdir"} /\ log[j].err = "none"

\* C27: from any remote tree, remove(path, {recursive: true}) on a directory
\* succeeds when no request meets a transport fault, and leaves neither the
\* path nor any entry under it, empty subdirectories included; every rmdir
\* is sent only after all entries of its directory were removed.
RecursiveRemoveLeavesNothing ==
  [][(CleanCall("remove") /\ fs'.call.option
        /\ fs'.call.path # <<>> /\ fs.remote[fs'.call.path] = "dir") =>
       /\ fs'.call.ok
       /\ \A q \in Under(fs'.call.path) \cup {fs'.call.path} : fs'.remote[q] = "none"
       /\ \A q \in Paths \ (Under(fs'.call.path) \cup {fs'.call.path}) :
             fs'.remote[q] = fs.remote[q]
       /\ \A i \in 1..Len(fs'.call.log) :
             fs'.call.log[i].req = "rmdir" =>
               \A q \in Under(fs'.call.log[i].path) :
                  fs.remote[q] # "none" => RemovedBefore(fs'.call.log, q, i)
    ]_vars
C27Witness ==
  /\ fs.call.op = "remove" /\ fs.call.option /\ fs.call.ok
  /\ fs.call.faults = {}
  /\ \E i, j, k \in 1..Len(fs.call.log) :
        /\ i < j /\ j < k
        /\ fs.call.log[i].req = "rmdir"
        /\ fs.call.log[j].req = "unlink"
        /\ fs.call.log[k].req = "rmdir"
        /\ fs.call.log[k].path = fs.call.path

\* C28: mkdir(path, {recursive: true}) is idempotent: when a call succeeded,
\* the same call made right after it succeeds too and leaves the remote tree
\* as it is (no request of either call meeting a transport fault).
MkdirTwiceChangesNothing ==
  [][(/\ fs.call.op = "mkdir" /\ fs.call.option /\ fs.call.ok
      /\ fs.call.faults = {}
      /\ CleanCall("mkdir") /\ fs'.call.option
      /\ fs'.call.path = fs.call.path) =>
       /\ fs'.call.ok
       /\ fs'.remote = fs.remote
    ]_vars
C28Witness ==
  /\ fs.made = 0 /\ fs.calls = 2
  /\ fs.call.op = "mkdir" /\ fs.call.option /\ fs.call.ok
  /\ fs.call.faults = {}
  /\ Len(fs.call.path) >= 2
  /\ fs.remote[fs.call.path] = "dir"
  /\ \A i \in 1..Len(fs.call.log) : fs.call.log[i].req = "stat"

\* the step is a call of uploadFile or downloadFile without overwrite
PlainTransfer ==
  /\ fs'.calls = fs.calls + 1
  /\ fs'.call.op \in {"uploadFile", "downloadFile"}
  /\ ~fs'.call.option
\* the trees a transfer reads from and writes to
SourceTree(f, op) ==
  IF op \in {"uploadFile", "uploadDirectory"} THEN f.local ELSE f.remote
DestinationTree(f, op) ==
  IF op \in {"uploadFile", "uploadDirectory"} THEN f.remote ELSE f.local
\* the call sent a put or a get
TransferInvoked(call) ==
  \E i \in 1..Len(call.log) : call.log[i].req \in {"put", "get"}

\* C24: without overwrite, uploadFile and downloadFile never send put/get
\* when the destination exists: they fail and leave the destination as it
\* is; and they never send put/get when the source does not exist.
NoTransferOntoExisting ==
  [][PlainTransfer =>
       LET call == fs'.call
           source == SourceTree(fs, call.op)[call.path]
           destination == DestinationTree(fs, call.op)[call.to] IN
       /\ destination # "none" =>
            /\ ~TransferInvoked(call)
            /\ ~call.ok
            /\ DestinationTree(fs', call.op)[call.to] = destination
       /\ source = "none" => (~TransferInvoked(call) /\ ~call.ok)
    ]_vars

\* the call is a directory transfer that returned a TransferResult
Returned ==
  fs.call.op \in {"uploadDirectory", "downloadDirectory"} /\ fs.call.ok
InSeq(x, seq) == \E i \in 1..Len(seq) : seq[i] = x

\* C25: in every TransferResult of uploadDirectory and downloadDirectory,
\* over a tree of any depth, success is true exactly when failed is empty; a
\* failed leaf of a nested subdirectory makes the top-level success false.
SuccessIffNothingFailed ==
  Returned => (fs.call.result.success <=> fs.call.result.failed = <<>>)

\* the regular files of tree t under `from`
Leaves(t, from) == {q \in Under(from) : t[q] \notin {"none", "dir"}}

\* C26: in a recursive uploadDirectory or downloadDirectory, the failure of a
\* leaf file at any depth does not stop the transfer: when nothing but leaf
\* files failed, every leaf file of the source tree was attempted and is in
\* transferred if its own put/get succeeded, and in failed with an entry of
\* the error map if not.
LeafFailureStopsNothing ==
  [][(/\ fs'.calls = fs.calls + 1
      /\ fs'.call.op \in {"uploadDirectory", "downloadDirectory"}
      /\ fs'.call.ok
      /\ \A i \in 1..Len(fs'.call.result.failed) :
            \E q \in Leaves(SourceTree(fs, fs'.call.op), fs'.call.path) :
               fs'.call.result.failed[i] = Moved(q, fs'.call.path, fs'.call.to)) =>
       \A q \in Leaves(SourceTree(fs, fs'.call.op), fs'.call.path) :
          LET call == fs'.call
              entryPath == Moved(q, call.path, call.to)
              sent == IF call.op = "uploadDirectory"
                      THEN [req |-> "put", path |-> entryPath, err |-> "none"]
                      ELSE [req |-> "get", path |-> q, err |-> "none"] IN
          /\ InSeq(entryPath, call.result.transferred) <=> InSeq(sent, call.log)
          /\ InSeq(entryPath, call.result.transferred) =>
               DestinationTree(fs', call.op)[entryPath] = SourceTree(fs, call.op)[q]
          /\ ~InSeq(entryPath, call.result.transferred) =>
               /\ InSeq(entryPath, call.result.failed)
               /\ \E e \in call.result.errors : e[1] = entryPath
    ]_vars
C26Witness ==
  /\ Returned
  /\ fs.call.faults # {}
  /\ \E i \in 1..Len(fs.call.result.failed) :
        Len(fs.call.result.failed[i]) >= Len(fs.call.to) + 2
  /\ \E j \in 1..Len(fs.call.log) :
        /\ fs.call.log[j].req \in {"put", "get"} /\ fs.call.log[j].err # "none"
        /\ \E k \in (j + 1)..Len(fs.call.log) :
              /\ fs.call.log[k].req = fs.call.log[j].req
              /\ fs.call.log[k].err = "none"
  /\ fs.call.result.transferred # <<>>

\* C31: the lookup of an existing session comes before the ceiling check: at
\* the ceiling, a createSession call for the target of a registered, connected
\* session returns that session's id and refreshes its lastActivity, and it
\* constructs no client and leaves the registry as it was.
ReuseBeforeCeiling ==
  [][\A c \in SSHCredentials, hasAuth \in BOOLEAN :
       (/\ CreateSession(c, hasAuth)
        /\ Len(sessions) >= maxSessions
        /\ SameTarget(c) # {})
       => /\ last'.result = "ok" /\ last'.ret \in SameTarget(c)
          /\ obj'[last'.ret].idleFor = 0
          /\ nextId' = nextId
          /\ UNCHANGED <<sessions, handles, pc>>]_vars

\* C32: an execution that was rejected (by its timeout, or by a stream
\* error) changes the session no more: the close event of its stream, coming
\* afterwards, leaves the session's commandCount and lastActivity as they were.
NoMutationAfterFailure ==
  [][\A o \in Ops :
       (/\ ops[o].pc = "rejected"
        /\ ops[o].stream = "open" /\ ops'[o].stream = "closed")
       => /\ obj'[ops[o].sid].commandCount = obj[ops[o].sid].commandCount
          /\ obj'[ops[o].sid].idleFor = obj[ops[o].sid].idleFor]_vars

\* a text that contains "password" in some letter case
MentionsPassword(text) ==
  Pieces(text) \cap {SudoPrompt, PasswordPrompt, "PASSWORD:"} # {}

\* C33: in an executeSudoCommand call made with a password, the first stdout
\* chunk that contains "password" in any letter case while no password was
\* sent makes the password be written to the stream, once, and is left out of
\* stdout; every other chunk is appended to stdout and writes nothing.
PromptInAnyCaseIsAnswered ==
  [][\A text \in SudoChunks \cup Echo :
       (SudoData(text) /\ sudo.sudoPassword # NoPassword) =>
         IF ~sudo.passwordSent /\ MentionsPassword(text)
         THEN /\ sudo'.written = Append(sudo.written, sudo.sudoPassword)
              /\ sudo'.passwordSent
              /\ sudo'.stdout = sudo.stdout
         ELSE /\ sudo'.written = sudo.written
              /\ sudo'.stdout = sudo.stdout \o text]_vars

\* C34: mkdir(path, {recursive: true}) tolerates a failed sftp.mkdir only for
\* a prefix that exists already and raises every other error, so a call that
\* returns leaves the whole path a directory on the remote side.
RecursiveMkdirMakesDirectory ==
  [][(/\ fs'.calls = fs.calls + 1
      /\ fs'.call.op = "mkdir" /\ fs'.call.option /\ fs'.call.ok) =>
       /\ \A k \in 1..Len(fs'.call.path) :
             fs'.remote[SubSeq(fs'.call.path, 1, k)] = "dir"
       /\ \A i \in 1..Len(fs'.call.log) :
             (fs'.call.log[i].req = "mkdir" /\ fs'.call.log[i].err # "none")
               => fs.remote[fs'.call.log[i].path] = "dir"]_vars

\* the step is a call of a single-entry file operation
SingleEntryOps == {"stat", "listDirectory", "mkdir", "unlink", "rmdir",
                   "uploadFile", "downloadFile"}
FileCall == fs'.calls = fs.calls + 1 /\ fs'.call.op \in SingleEntryOps

RegisteredIsConnected ==
  /\ \A s \in Registered : obj[s].isConnected
  /\ last.result # "NotConnected"
  /\ last.op = "listSessions" => last.ids = Registered

C36Witness ==
  /\ last.op = "listSessions" /\ last.ids # {}
  /\ \E s \in Ids : pc[s] = "returned" /\ s \notin Registered /\ ~obj[s].isConnected

\* C37: a registered session with isConnected true has its connection open:
\* neither getSession nor createSession gives its caller a session whose
\* connection was lost.
NeverHandsOutLostConnection ==
  [][/\ \A sid \in Ids :
          (GetSession(sid) /\ last'.result = "ok") => ~handles[sid].lost
     /\ \A c \in SSHCredentials, hasAuth \in BOOLEAN :
          (CreateSession(c, hasAuth) /\ last'.result = "ok")
            => ~handles[last'.ret].lost]_vars

\* C38: every createSession call that started to connect returns an id or
\* fails, also when the transport never calls back.
EveryCreateSessionSettles ==
  \A id \in Ids :
     pc[id] \in {"connecting", "initSFTP"} ~> pc[id] \in {"returned", "failed"}

\* C39: of two uploadFile calls without overwrite that run at the same time
\* for the same remote path, which does not exist beforehand, at most one
\* calls fastPut, the other fails with 'Remote file already exists', and
\* the file the first has written is not overwritten by the second.
AtMostOneUploadPuts ==
  \A c, d \in {1, 2} :
     (/\ c # d /\ fs.uploads[c].remotePath = fs.uploads[d].remotePath
      /\ fs.local[fs.uploads[c].localPath] \in Contents
      /\ fs.local[fs.uploads[d].localPath] \in Contents) =>
        /\ ~(fs.uploads[c].pc \in {"put", "done"} /\ fs.uploads[d].pc \in {"put", "done"})
        /\ (fs.uploads[c].pc = "done" /\ fs.uploads[d].pc \in {"failed", "done"}) =>
              /\ fs.uploads[d].error = <<"Remote file already exists">>
              /\ fs.remote[fs.uploads[c].remotePath] = fs.local[fs.uploads[c].localPath]

\* C40: in every TransferResult of uploadDirectory and downloadDirectory the
\* paths of failed are the keys of errors, no path is both in transferred and
\* in failed, and every leaf file of the source tree is in exactly one of
\* the two lists, leaves of a subdirectory that failed as a whole included.
EveryLeafIsAccountedFor ==
  Returned =>
    LET result == fs.call.result IN
    /\ {result.failed[i] : i \in 1..Len(result.failed)} = {e[1] : e \in result.errors}
    /\ \A i \in 1..Len(result.failed) : ~InSeq(result.failed[i], result.transferred)
    /\ \A q \in Leaves(SourceTree(fs, fs.call.op), fs.call.path) :
          LET entryPath == Moved(q, fs.call.path, fs.call.to) IN
          InSeq(entryPath, result.transferred) # InSeq(entryPath, result.failed)

====
